---- MODULE Spec2Model ----
(***************************************************************************)
(* Model of the surface-discovery pipeline (discovery/core.py and the      *)
(* stage modules under discovery/stages/).                                 *)
(*                                                                         *)
(* The orchestrator DiscoveryEngine.discover runs on one asyncio task.     *)
(* Every stage method is split at its single suspension point (the await   *)
(* of the stage module's run): the part before it is the <Stage>_Start     *)
(* action, the part after it the <Stage>_Return action.  The outcome of    *)
(* every external tool call is an input of the Return action.              *)
(***************************************************************************)
EXTENDS Integers, Sequences, FiniteSets, TLC

(***************************************************************************)
(* Bounds of the model.                                                    *)
(***************************************************************************)
MaxClock == 1
MaxServices == 2
MaxEndpoints == 1
MaxFindings == 1
MaxSeeds == 2
MaxCrawlDepth == 1
MaxUrlsCap == 1
MaxCrawls == 2
MaxSegments == 2
MaxAuthEndpoints == 2
MaxCdnServices == 2
MaxKatanaLines == 2
MaxHosts == 51
MaxHttpxLines == 2

(***************************************************************************)
(* Small helpers.                                                          *)
(***************************************************************************)
Range(s) == {s[i] : i \in 1..Len(s)}

Last(s) == s[Len(s)]

IsPrefix(s, t) == Len(s) <= Len(t) /\ SubSeq(t, 1, Len(s)) = s

(***************************************************************************)
(* DiscoveryStage (models/discovery.py).                                   *)
(***************************************************************************)
INITIALIZED == "initialized"
PASSIVE_DISCOVERY == "passive_discovery"
ACTIVE_DISCOVERY == "active_discovery"
DEEP_DISCOVERY == "deep_discovery"
ENRICHMENT == "enrichment"
COMPLETED == "completed"
FAILED == "failed"

DiscoveryStage ==
    {INITIALIZED, PASSIVE_DISCOVERY, ACTIVE_DISCOVERY, DEEP_DISCOVERY,
     ENRICHMENT, COMPLETED, FAILED}

\* Optional[...] fields that hold None.
NoError == "None"
NoTime == -1

(***************************************************************************)
(* The world the external tools report on.  A host name is its sequence    *)
(* of labels; the second name is a suffix of the first.                    *)
(***************************************************************************)
RootName == <<"example", "com">>
ApiName == <<"api", "example", "com">>

\* Names in sorted() order: "api.example.com" < "example.com".
NameOrder == <<ApiName, RootName>>
SubNames == Range(NameOrder)
IPs == {"52.0.0.1"}
Severities == {"critical", "high", "medium", "low", "info"}
FindingSeverities == {"high", "info"}
ErrorMessages == {"internal error"}

\* Targets as tldextract splits their host: (domain, suffix).
Targets ==
    {[domain |-> "example", suffix |-> "com"],
     [domain |-> "localhost", suffix |-> ""],
     [domain |-> "", suffix |-> ""]}

\* DiscoveryConfig: the fields the pipeline reads and the overall timeout.
\* max_subdomains = None is written 0: the only reader tests its truth.
DEPTH_CONFIGS ==
    [shallow |-> [depth |-> "shallow", timeout |-> 300,
                  javascript_execution |-> FALSE,
                  max_subdomains |-> 20, skip_vuln_scan |-> FALSE],
     normal  |-> [depth |-> "normal", timeout |-> 600,
                  javascript_execution |-> FALSE,
                  max_subdomains |-> 0, skip_vuln_scan |-> FALSE],
     deep    |-> [depth |-> "deep", timeout |-> 900,
                  javascript_execution |-> TRUE,
                  max_subdomains |-> 0, skip_vuln_scan |-> FALSE]]

\* The configurations an engine is constructed with: a preset, with or
\* without the skip_vuln_scan override.
Configs ==
    {[DEPTH_CONFIGS[d] EXCEPT !.skip_vuln_scan = s] :
        d \in {"normal", "deep"}, s \in BOOLEAN} \ {[DEPTH_CONFIGS["deep"] EXCEPT !.skip_vuln_scan = TRUE]}

VARIABLES
    pc,                 \* position of the discover() coroutine
    config,             \* DiscoveryEngine.config
    now,                \* the clock read by datetime.utcnow()
    metadata,           \* result.metadata
    discovery_timeline, \* result.discovery_timeline
    domains,            \* result.domains
    services,           \* result.services
    technologies,       \* result.technologies
    endpoints,          \* result.endpoints
    findings,           \* result.findings
    statistics,         \* result.statistics
    raised_in,          \* history: the stages whose try block raised
    tool_failed,        \* history: the tools whose invocation failed
    cli,                \* position of main() of cli.py
    output,             \* the JSON file main() writes
    start_urls,         \* argument of DeepURLCrawler.crawl
    max_depth,          \* DeepURLCrawler.max_depth
    max_urls,           \* DeepURLCrawler.max_urls
    graph,              \* the links every page of the crawled sites holds
    cpc,                \* position of the crawl() coroutine
    seed_idx,           \* index of the start URL crawl() is at
    stack,              \* the active _crawl_url calls, innermost last
    visited_urls,       \* DeepURLCrawler.visited_urls
    discovered_urls,    \* DeepURLCrawler.discovered_urls
    rendered,           \* history: the pages rendered, with depth and seed
    failed_pages,       \* history: the pages whose navigation raised
    crawls,             \* the crawl() invocations made on the crawler
    open_pages,         \* the pages of the browser context that are open
    call,               \* ToolRunner: the state of the call of each operation
    process,            \* ToolRunner: the state of the subprocess of each call
    auth_endpoints,     \* argument of _extract_path_parameters
    auth_pos,           \* the endpoint and the segment its loops are at
    path_params,        \* the dict _extract_path_parameters builds
    param_order,        \* the keys of that dict in insertion order
    auth_calls,         \* the calls of it made on the endpoint list
    first_output,       \* the list the first of these calls returned
    cdn_services,       \* argument of _detect_cdn_providers
    cdn_idx,            \* the service its loop is at
    cdn_mappings,       \* the dict _detect_cdn_providers builds
    deep_services,      \* argument of DeepDiscovery.run
    deep_config,        \* DeepDiscovery.config
    stage_results,      \* the DeepResults DeepDiscovery.run returns
    crawler_outcome,    \* history: what DeepURLCrawler.crawl did in that run
    presets,            \* config.py: the instances the dict DEPTH_CONFIGS holds
    cfg_depth,          \* argument depth of get_config
    cfg_overrides,      \* argument **overrides of get_config
    cfg_result,         \* the DiscoveryConfig get_config returned
    cfg_ref,            \* the instance cfg_result is: a preset's or a new one
    cfg_error,          \* the exception the last assignment to a field raised
    passive_config,     \* PassiveDiscovery.config
    passive_pc,         \* position of the PassiveDiscovery.run coroutine
    subdomain_task,     \* the _enumerate_subdomains coroutine given to gather
    whois_task,         \* the _fetch_whois coroutine given to gather
    passive_results,    \* the PassiveResults PassiveDiscovery.run fills
    port_depth,         \* PortDiscovery.config.depth
    host_count,         \* argument of _get_port_config
    port_config,        \* the (ports, top_ports, rate) it returns
    active_subdomains,  \* argument of ActiveDiscovery.run
    httpx_output,       \* what run_httpx gives: its output lines or a failure
    probe_results       \* the ActiveResults ActiveDiscovery.run returns

vars ==
    <<pc, config, now, metadata, discovery_timeline, domains, services,
      technologies, endpoints, findings, statistics, raised_in, tool_failed,
      cli, output, start_urls, max_depth, max_urls, graph, cpc, seed_idx,
      stack, visited_urls, discovered_urls, rendered, failed_pages, crawls,
      open_pages, call, process, auth_endpoints, auth_pos, path_params,
      param_order, auth_calls, first_output, cdn_services,
      cdn_idx, cdn_mappings, deep_services, deep_config, stage_results,
      crawler_outcome,
      presets, cfg_depth, cfg_overrides, cfg_result, cfg_ref, cfg_error,
      passive_config, passive_pc, subdomain_task, whois_task, passive_results,
      port_depth, host_count, port_config, active_subdomains, httpx_output,
      probe_results>>

cliVars == <<cli, output>>

crawlerVars ==
    <<start_urls, max_depth, max_urls, graph, cpc, seed_idx, stack,
      visited_urls, discovered_urls, rendered, failed_pages, crawls,
      open_pages>>

gatewayVars == <<call, process>>

authVars ==
    <<auth_endpoints, auth_pos, path_params, param_order, auth_calls,
      first_output>>

cdnVars == <<cdn_services, cdn_idx, cdn_mappings>>

deepVars == <<deep_services, deep_config, stage_results, crawler_outcome>>

configVars ==
    <<presets, cfg_depth, cfg_overrides, cfg_result, cfg_ref, cfg_error>>

passiveVars ==
    <<passive_config, passive_pc, subdomain_task, whois_task, passive_results>>

portVars == <<port_depth, host_count, port_config>>

activeVars == <<active_subdomains, httpx_output, probe_results>>

\* The variables of config.py and of the stage modules run on their own.
partVars == <<configVars, passiveVars, portVars, activeVars>>

\* The variables of the modules that are specified on their own.
unitVars == <<gatewayVars, authVars, cdnVars, deepVars, partVars>>

historyVars == <<raised_in, tool_failed>>

resultVars ==
    <<metadata, discovery_timeline, domains, services, technologies,
      endpoints, findings, statistics>>

dataVars == <<domains, services, technologies, endpoints, findings, statistics>>

\* DiscoveryEngine.result is None.
NoMetadata ==
    [target |-> <<>>, status |-> "None", error |-> NoError,
     start_time |-> NoTime, end_time |-> NoTime, duration_seconds |-> NoTime]

NoDomains ==
    [present |-> FALSE, subdomains |-> <<>>, total_subdomains |-> 0,
     live_subdomains |-> 0]

\* Statistics() defaults.
DefaultStatistics ==
    [total_subdomains |-> 0, live_services |-> 0, technologies_detected |-> 0,
     endpoints_discovered |-> 0,
     findings_by_severity |-> [s \in Severities |-> 0]]

(***************************************************************************)
(* utils/helpers.py extract_domain: raises ValueError when tldextract      *)
(* finds no domain part, otherwise returns "<domain>.<suffix>".            *)
(***************************************************************************)
ExtractDomainRaises(t) == t.domain = ""

extract_domain(t) == <<t.domain, ".", t.suffix>>

(***************************************************************************)
(* DiscoveryResult.add_timeline_event: TimelineEvent takes its timestamp   *)
(* from datetime.utcnow() when it is built and is appended to the list.    *)
(***************************************************************************)
TimelineEvent(stage, event) ==
    [timestamp |-> now, stage |-> stage, event |-> event]

\* Mutant: the new event is put in front of the list.
add_timeline_event_Prepends(timeline, stage, event) ==
    <<TimelineEvent(stage, event)>> \o timeline

add_timeline_event(timeline, stage, event) ==
    Append(timeline, TimelineEvent(stage, event))

\* main() of cli.py has written no file.
NoOutput ==
    [written |-> FALSE, metadata |-> NoMetadata, discovery_timeline |-> <<>>,
     statistics |-> DefaultStatistics]

(***************************************************************************)
(* The sites the Playwright crawler (crawler/deep_crawler.py) is run on.   *)
(* A URL is the record of the parts urlparse splits it into.               *)
(***************************************************************************)
Url(scheme, netloc, path, fragment) ==
    [scheme |-> scheme, netloc |-> netloc, path |-> path, params |-> "",
     query |-> "", fragment |-> fragment]

PageA == Url("http", "a.example", "/", "")
PageAx == Url("http", "a.example", "/", "x")
PageAs == Url("https", "a.example", "/", "")
PageB == Url("http", "a.example", "/b", "")
PageBx == Url("http", "a.example", "/b", "x")
PageBp == [PageBx EXCEPT !.params = "v=1"]
PageC == Url("http", "c.example", "/", "")
PageD == Url("http", "a.example", "/d", "")

Pages == {PageA, PageAs, PageB, PageC, PageD}

\* The hrefs each page may hold (a.href is absolute in the browser).
LinkChoices ==
    [a : {{}, {PageB, PageC}, {PageBx, PageAs}, {PageA}},
     as : {{}, {PageBp}},
     b : {{}, {PageD}, {PageC}},
     c : {{}, {PageA}},
     d : {{}, {PageA}}]

GraphOf(l) ==
    [u \in Pages |->
        CASE u = PageA -> l.a
          [] u = PageAs -> l.as
          [] u = PageB -> l.b
          [] u = PageC -> l.c
          [] OTHER -> l.d]

Graphs == {GraphOf(l) : l \in LinkChoices}

\* max_urls of the scenario "seeds [A], maxDepth=1, maxURLs=100".
ScenarioMaxUrls == 100

\* No DeepURLCrawler has been constructed.
CrawlerNotBuilt ==
    /\ start_urls = <<>>
    /\ max_depth = 0
    /\ max_urls = 0
    /\ graph = [u \in Pages |-> {}]
    /\ cpc = "none"
    /\ seed_idx = 0
    /\ stack = <<>>
    /\ visited_urls = {}
    /\ discovered_urls = {}
    /\ rendered = {}
    /\ failed_pages = {}
    /\ crawls = 0
    /\ open_pages = {}

(***************************************************************************)
(* The modules specified on their own: the tool gateway (tools/runner.py), *)
(* the path parameters of stages/authenticated.py, the CDN detection of    *)
(* stages/enrichment.py and the stage of stages/deep.py.                   *)
(***************************************************************************)
\* The operations of ToolRunner, by the tool they start.
GatewayOps == {"subfinder", "httpx", "dnsx", "nuclei", "katana", "naabu"}

\* No operation of the gateway has been called.
GatewayNotUsed ==
    /\ call = [op \in GatewayOps |-> "idle"]
    /\ process = [op \in GatewayOps |-> "none"]

\* _extract_path_parameters has been given no endpoint.
AuthNotRun ==
    /\ auth_endpoints = <<>>
    /\ auth_pos = <<1, 1>>
    /\ path_params = <<>>
    /\ param_order = <<>>
    /\ auth_calls = 1
    /\ first_output = <<>>

\* _detect_cdn_providers has been given no service.
CdnNotRun ==
    /\ cdn_services = <<>>
    /\ cdn_idx = 1
    /\ cdn_mappings = <<>>

\* The Playwright crawler was not started.
NotCrawled == [ok |-> TRUE, discovered |-> {}, visited |-> 0]

\* DeepDiscovery.run has not been called.
DeepNotRun ==
    /\ deep_services = <<>>
    /\ deep_config = DEPTH_CONFIGS["normal"]
    /\ stage_results = <<>>
    /\ crawler_outcome = NotCrawled

\* get_config has not been called.
ConfigNotRun ==
    /\ presets = DEPTH_CONFIGS
    /\ cfg_depth = "normal"
    /\ cfg_overrides = <<>>
    /\ cfg_result = DEPTH_CONFIGS["normal"]
    /\ cfg_ref = "none"
    /\ cfg_error = NoError

\* whois_data = None
NoWhois == "None"

\* A coroutine given to asyncio.gather: how far it is, whether the tool it
\* calls succeeded, and the value it returned.
Coroutine(state, tool_ok, value) ==
    [state |-> state, tool_ok |-> tool_ok, value |-> value]

\* PassiveDiscovery.run has not been called.
PassiveNotRun ==
    /\ passive_config = DEPTH_CONFIGS["normal"]
    /\ passive_pc = "idle"
    /\ subdomain_task = Coroutine("unstarted", TRUE, <<>>)
    /\ whois_task = Coroutine("unstarted", TRUE, NoWhois)
    /\ passive_results = <<>>

\* ports = None and top_ports = None in the arguments of run_naabu.
NoPorts == "None"
NoTopPorts == 0

\* _get_port_config has not been called.
PortConfigNotRun ==
    /\ port_depth = "normal"
    /\ host_count = 0
    /\ port_config = [ports |-> NoPorts, top_ports |-> NoTopPorts, rate |-> 0]

\* ActiveDiscovery.run has not been called.
ActiveNotRun ==
    /\ active_subdomains = <<>>
    /\ httpx_output = [ok |-> TRUE, lines |-> <<>>]
    /\ probe_results = <<>>

\* Neither config.py nor a stage module run on its own has been used.
PartsNotRun ==
    ConfigNotRun /\ PassiveNotRun /\ PortConfigNotRun /\ ActiveNotRun

Init ==
    /\ pc = "idle"
    /\ config \in Configs
    /\ now = 0
    /\ metadata = NoMetadata
    /\ discovery_timeline = <<>>
    /\ domains = NoDomains
    /\ services = <<>>
    /\ technologies = <<>>
    /\ endpoints = <<>>
    /\ findings = <<>>
    /\ statistics = DefaultStatistics
    /\ raised_in = {}
    /\ tool_failed = {}
    /\ cli = "running"
    /\ output = NoOutput
    /\ CrawlerNotBuilt
    /\ GatewayNotUsed
    /\ AuthNotRun
    /\ CdnNotRun
    /\ DeepNotRun
    /\ PartsNotRun

\* Time passes while the coroutine is suspended in a stage; the code between
\* two suspension points runs within one reading of the clock.
Tick ==
    /\ pc \in {"in_passive", "in_port", "in_active", "in_deep",
               "in_enrichment", "in_vuln"}
    /\ now < MaxClock
    /\ now' = now + 1
    /\ UNCHANGED <<pc, config, resultVars, historyVars>>
    /\ UNCHANGED <<cliVars, crawlerVars, unitVars>>

(***************************************************************************)
(* DiscoveryEngine.discover, up to the first stage (core.py 33-72).        *)
(***************************************************************************)
Discover(t) ==
    /\ pc = "idle"
    /\ IF ExtractDomainRaises(t)
       THEN /\ pc' = "raised"
            /\ UNCHANGED <<config, now, resultVars, historyVars>>
       ELSE /\ metadata' =
                [target |-> extract_domain(t), status |-> INITIALIZED,
                 error |-> NoError, start_time |-> now, end_time |-> NoTime,
                 duration_seconds |-> NoTime]
            /\ discovery_timeline' =
                add_timeline_event(<<>>, INITIALIZED, "Discovery initialized")
            /\ domains' = NoDomains
            /\ services' = <<>>
            /\ technologies' = <<>>
            /\ endpoints' = <<>>
            /\ findings' = <<>>
            /\ statistics' = DefaultStatistics
            /\ pc' = "call_passive"
            /\ UNCHANGED <<config, now, historyVars>>
    /\ UNCHANGED <<cliVars, crawlerVars, unitVars>>

(***************************************************************************)
(* stages/passive.py                                                       *)
(***************************************************************************)
\* sorted(list(S)) for a set of host names.
Sorted(S) == SelectSeq(NameOrder, LAMBDA n : n \in S)

\* set(list(all_subdomains)[:max_subdomains]): a set has no order, so any
\* max_subdomains of its members may be the ones kept.
LimitChoices(S, max) ==
    IF max # 0
    THEN {T \in SUBSET S :
            Cardinality(T) = (IF Cardinality(S) < max THEN Cardinality(S) ELSE max)}
    ELSE {S}

\* PassiveDiscovery._enumerate_subdomains: a failure of subfinder is logged
\* and leaves the set empty.  kept is the choice made by the limit.
enumerate_subdomains(subfinder, kept) ==
    Sorted(IF subfinder.ok THEN kept ELSE {})

\* The A records of the world: only the api host resolves.
ResolvesTo(name) == IF name = ApiName THEN IPs ELSE {}

\* Outcomes of the dnsx calls: the IPs resolved for each host ({} = no
\* record), or a failure of the tool.
DnsOutcomes == [ok : BOOLEAN, a : {[n \in SubNames |-> ResolvesTo(n)]}]

SubfinderOutcomes == [ok : BOOLEAN, out : SUBSET SubNames]

\* PassiveDiscovery.run: the subfinder failure was already swallowed, a dnsx
\* failure is caught here and leaves dns_records empty.
PassiveRun(subdomains, dns) ==
    LET records == IF dns.ok THEN dns.a ELSE [n \in SubNames |-> {}]
    IN [raised |-> FALSE,
        subdomains |-> subdomains,
        total_subdomains |-> Len(subdomains),
        dns_records |-> records,
        unique_ips |-> UNION {records[n] : n \in SubNames}]

\* Subdomain(...) as built by to_domain_info.
NewSubdomain(name, ips) ==
    [name |-> name, ips |-> ips, status |-> "unknown", open_ports |-> <<>>,
     open_ports_count |-> 0, total_ports_scanned |-> 0]

\* PassiveDiscovery.to_domain_info
to_domain_info(results) ==
    [present |-> TRUE,
     subdomains |->
        [i \in 1..Len(results.subdomains) |->
            NewSubdomain(results.subdomains[i],
                         results.dns_records[results.subdomains[i]])],
     total_subdomains |-> Len(results.subdomains),
     live_subdomains |-> 0]

(***************************************************************************)
(* The except clause of discover (core.py 103-107): the exception of a     *)
(* stage reaches it after the stage's own handler appended its event.      *)
(***************************************************************************)
\* Mutant: the handler stores the message but leaves the status.
DiscoverFailed_KeepsStatus(msg) ==
    [metadata EXCEPT !.error = msg]

DiscoverFailed(msg) ==
    [metadata EXCEPT !.status = FAILED, !.error = msg]

\* str(e) of the exception a failed tool invocation raises.
ToolError == "tool failed"

\* The exception that leaves a stage's try block: the stage module's own
\* error, else the tool failure it let through, else none.
StageError(internal, results) ==
    IF internal # NoError THEN internal
    ELSE IF results.raised THEN ToolError
    ELSE NoError

(***************************************************************************)
(* DiscoveryEngine._run_passive_discovery (core.py 111-154)                *)
(***************************************************************************)
RunPassiveDiscovery_Start ==
    /\ pc = "call_passive"
    /\ metadata' = [metadata EXCEPT !.status = PASSIVE_DISCOVERY]
    /\ discovery_timeline' =
        add_timeline_event(discovery_timeline, PASSIVE_DISCOVERY,
                           "Starting passive reconnaissance")
    /\ pc' = "in_passive"
    /\ UNCHANGED <<config, now, dataVars, historyVars>>
    /\ UNCHANGED <<cliVars, crawlerVars, unitVars>>

\* internal: the message of an exception raised by the stage module itself
\* (NoError when it returns normally).
RunPassiveDiscovery_Return(subfinder, kept, dns, internal) ==
    /\ pc = "in_passive"
    /\ LET results == PassiveRun(enumerate_subdomains(subfinder, kept), dns)
           e == StageError(internal, results)
       IN /\ IF e # NoError
             THEN /\ discovery_timeline' =
                        add_timeline_event(discovery_timeline, PASSIVE_DISCOVERY,
                                           "Passive discovery failed")
                  /\ metadata' = DiscoverFailed(e)
                  /\ pc' = "raised"
                  /\ raised_in' = raised_in \cup {"passive"}
                  /\ UNCHANGED domains
             ELSE /\ domains' = to_domain_info(results)
                  /\ discovery_timeline' =
                        add_timeline_event(discovery_timeline, PASSIVE_DISCOVERY,
                                           "Passive discovery completed")
                  /\ pc' = "call_port"
                  /\ UNCHANGED <<metadata, raised_in>>
          /\ tool_failed' =
                IF internal # NoError THEN tool_failed
                ELSE tool_failed \cup (IF subfinder.ok THEN {} ELSE {"subfinder"})
                                 \cup (IF dns.ok THEN {} ELSE {"dnsx"})
    /\ UNCHANGED <<config, now, services, technologies, endpoints, findings,
                   statistics>>
    /\ UNCHANGED <<cliVars, crawlerVars, unitVars>>

(***************************************************************************)
(* stages/port_discovery.py                                                *)
(***************************************************************************)
Ports == {80}

\* Outcomes of run_naabu: the parsed (ip, port) lines, or a failure (the
\* timeout is raised as ToolExecutionError).
NaabuOutcomes ==
    [ok : BOOLEAN, out : {<<>>} \cup {<<[ip |-> i, port |-> p]>> : i \in IPs, p \in Ports}]

\* PortDiscovery._estimate_ports_scanned
estimate_ports_scanned(depth) ==
    CASE depth = "shallow" -> 100
      [] depth = "normal" -> 1000
      [] depth = "deep" -> 65535
      [] OTHER -> 1000

\* subdomain_by_ip[ip]: the last subdomain of the list that resolves to ip
\* (0 when there is none).
subdomain_by_ip(subs, ip) ==
    LET idx == {i \in 1..Len(subs) : ip \in subs[i].ips}
    IN IF idx = {} THEN 0 ELSE CHOOSE i \in idx : \A j \in idx : j <= i

\* PortDiscovery._parse_naabu_output: appends every reported port to the
\* Subdomain object that owns the ip.
RECURSIVE parse_naabu_output(_, _, _)
parse_naabu_output(lines, subs, depth) ==
    IF lines = <<>> THEN subs
    ELSE LET line == Head(lines)
             i == subdomain_by_ip(subs, line.ip)
             upd == IF i = 0 THEN subs
                    ELSE [subs EXCEPT
                            ![i].open_ports = Append(@, line.port),
                            ![i].total_ports_scanned = estimate_ports_scanned(depth)]
         IN parse_naabu_output(Tail(lines), upd, depth)

\* PortDiscovery.run on the Subdomain objects of the report: the objects as
\* the stage leaves them, and whether the stage raised.
PortRun(subs, naabu, depth) ==
    IF \A i \in 1..Len(subs) : subs[i].ips = {}
    THEN [raised |-> FALSE, called |-> FALSE, subdomains |-> subs]
    ELSE IF ~naabu.ok
    THEN [raised |-> TRUE, called |-> TRUE, subdomains |-> subs]
    ELSE LET parsed == parse_naabu_output(naabu.out, subs, depth)
         IN [raised |-> FALSE, called |-> TRUE,
             subdomains |->
                [i \in 1..Len(parsed) |->
                    IF parsed[i].ips # {} /\ parsed[i].open_ports # <<>>
                    THEN [parsed[i] EXCEPT !.open_ports_count = Len(parsed[i].open_ports)]
                    ELSE parsed[i]]]

(***************************************************************************)
(* DiscoveryEngine._run_port_discovery (core.py 156-200).  The stage has   *)
(* no status of its own: the status is left as it is and the events carry  *)
(* the PASSIVE_DISCOVERY tag ("Reuse stage for timeline").                 *)
(***************************************************************************)
\* Mutant: the Port stage tags its events with the next stage's value.
PortStageTag_Active == ACTIVE_DISCOVERY

PortStageTag == PASSIVE_DISCOVERY

\* Mutant: the gate tests only that the domain record exists.
NoSubdomains_OnlyNone == ~domains.present

\* The dependency gate of the Port and Active stages (core.py 169, 216).
NoSubdomains == ~domains.present \/ domains.subdomains = <<>>

RunPortDiscovery_Start ==
    /\ pc = "call_port"
    /\ discovery_timeline' =
        add_timeline_event(discovery_timeline, PortStageTag,
                           "Starting port scanning")
    /\ pc' = IF NoSubdomains THEN "call_active" ELSE "in_port"
    /\ UNCHANGED <<config, now, metadata, dataVars, historyVars>>
    /\ UNCHANGED <<cliVars, crawlerVars, unitVars>>

\* Mutant: the handler of the Port stage re-raises like a hard-fail stage.
RunPortDiscovery_Return_Reraises(naabu, internal) ==
    /\ pc = "in_port"
    /\ LET r == PortRun(domains.subdomains, naabu, config.depth)
           e == StageError(internal, r)
       IN /\ IF e # NoError
             THEN /\ discovery_timeline' =
                        add_timeline_event(discovery_timeline, PortStageTag,
                                           "Port discovery failed")
                  /\ raised_in' = raised_in \cup {"port"}
                  /\ metadata' = DiscoverFailed(e)
                  /\ pc' = "raised"
                  /\ UNCHANGED domains
             ELSE /\ domains' = [domains EXCEPT !.subdomains = r.subdomains]
                  /\ discovery_timeline' =
                        add_timeline_event(discovery_timeline, PortStageTag,
                                           "Port discovery completed")
                  /\ pc' = "call_active"
                  /\ UNCHANGED <<raised_in, metadata>>
          /\ tool_failed' =
                IF internal = NoError /\ r.called /\ ~naabu.ok
                THEN tool_failed \cup {"naabu"} ELSE tool_failed
    /\ UNCHANGED <<config, now, services, technologies, endpoints,
                   findings, statistics>>
    /\ UNCHANGED <<cliVars, crawlerVars, unitVars>>

\* The rest of _run_port_discovery.  port_discovery.run is given the list
\* self.result.domains.subdomains itself and writes the ports into its
\* Subdomain objects; the orchestrator assigns nothing to the report here,
\* so domains' is the objects as the stage left them.
RunPortDiscovery_Return(naabu, internal) ==
    /\ pc = "in_port"
    /\ LET r == PortRun(domains.subdomains, naabu, config.depth)
           e == StageError(internal, r)
       IN /\ IF e # NoError
             THEN /\ discovery_timeline' =
                        add_timeline_event(discovery_timeline, PortStageTag,
                                           "Port discovery failed")
                  /\ raised_in' = raised_in \cup {"port"}
                  /\ UNCHANGED domains
             ELSE /\ domains' = [domains EXCEPT !.subdomains = r.subdomains]
                  /\ discovery_timeline' =
                        add_timeline_event(discovery_timeline, PortStageTag,
                                           "Port discovery completed")
                  /\ UNCHANGED raised_in
          /\ tool_failed' =
                IF internal = NoError /\ r.called /\ ~naabu.ok
                THEN tool_failed \cup {"naabu"} ELSE tool_failed
    /\ pc' = "call_active"
    /\ UNCHANGED <<config, now, metadata, services, technologies, endpoints,
                   findings, statistics>>
    /\ UNCHANGED <<cliVars, crawlerVars, unitVars>>

(***************************************************************************)
(* stages/active.py                                                        *)
(***************************************************************************)
\* The technologies httpx detects on a host of the world.
TechOf(host) == IF host = ApiName THEN <<"nginx">> ELSE <<>>

\* Every Service object a probe of the world can yield, in output order.
AllServices ==
    <<[url |-> [scheme |-> "http", host |-> ApiName], technologies |-> TechOf(ApiName)],
      [url |-> [scheme |-> "https", host |-> ApiName], technologies |-> TechOf(ApiName)],
      [url |-> [scheme |-> "http", host |-> RootName], technologies |-> TechOf(RootName)],
      [url |-> [scheme |-> "https", host |-> RootName], technologies |-> TechOf(RootName)]>>

\* The Service lists httpx output can be parsed into when the given hosts
\* are probed: at most one per answering (scheme, host).
HttpxOutputs(names) ==
    {SelectSeq(AllServices, LAMBDA sv : sv \in T) :
        T \in {U \in SUBSET {sv \in Range(AllServices) : sv.url.host \in names} :
                Cardinality(U) <= MaxServices}}

\* Mutant: the failure of the probe is let through to the orchestrator.
ActiveRun_Propagates(names, httpx) ==
    IF httpx.ok
    THEN [raised |-> FALSE,
          services |-> httpx.out,
          total_probed |-> Len(names),
          live_count |-> Len(httpx.out),
          dead_count |-> Len(names) - Len(httpx.out)]
    ELSE [raised |-> TRUE,
          services |-> <<>>, total_probed |-> Len(names),
          live_count |-> 0, dead_count |-> 0]

\* ActiveDiscovery.run: a failure of the probe is caught and leaves the
\* service list empty and the counters at their defaults.
ActiveRun(names, httpx) ==
    IF httpx.ok
    THEN [raised |-> FALSE,
          services |-> httpx.out,
          total_probed |-> Len(names),
          live_count |-> Len(httpx.out),
          dead_count |-> Len(names) - Len(httpx.out)]
    ELSE [raised |-> FALSE,
          services |-> <<>>, total_probed |-> Len(names),
          live_count |-> 0, dead_count |-> 0]

\* a in b for two label sequences.
IsInfix(a, b) ==
    \E i \in 0..(Len(b) - Len(a)) : SubSeq(b, i + 1, i + Len(a)) = a

\* subdomain.name in url (substring test on the URL text).  The URL text is
\* scheme "://" host; with the labels used here a name occurs in it exactly
\* when its labels are consecutive labels of the host.
NameInUrl(name, url) == IsInfix(name, url.host)

\* The flattening of the services' technology lists.
RECURSIVE all_technologies(_)
all_technologies(svcs) ==
    IF svcs = <<>> THEN <<>>
    ELSE Head(svcs).technologies \o all_technologies(Tail(svcs))

\* The status update of core.py 232-239.
UpdateSubdomainStatus(subs, svcs) ==
    [i \in 1..Len(subs) |->
        [subs[i] EXCEPT !.status =
            IF \E k \in 1..Len(svcs) : NameInUrl(subs[i].name, svcs[k].url)
            THEN "live" ELSE "dead"]]

\* core.py 241-244
CountLive(subs) == Cardinality({i \in 1..Len(subs) : subs[i].status = "live"})

(***************************************************************************)
(* DiscoveryEngine._run_active_discovery (core.py 202-270)                 *)
(***************************************************************************)
RunActiveDiscovery_Start ==
    /\ pc = "call_active"
    /\ metadata' = [metadata EXCEPT !.status = ACTIVE_DISCOVERY]
    /\ discovery_timeline' =
        add_timeline_event(discovery_timeline, ACTIVE_DISCOVERY,
                           "Starting active probing")
    /\ pc' = IF NoSubdomains THEN "call_deep" ELSE "in_active"
    /\ UNCHANGED <<config, now, dataVars, historyVars>>
    /\ UNCHANGED <<cliVars, crawlerVars, unitVars>>

RunActiveDiscovery_Return(httpx, internal) ==
    /\ pc = "in_active"
    /\ LET names == [i \in 1..Len(domains.subdomains) |->
                        domains.subdomains[i].name]
           active_results == ActiveRun(names, httpx)
           subs == UpdateSubdomainStatus(domains.subdomains,
                                         active_results.services)
           e == StageError(internal, active_results)
       IN /\ IF e # NoError
             THEN /\ discovery_timeline' =
                        add_timeline_event(discovery_timeline, ACTIVE_DISCOVERY,
                                           "Active discovery failed")
                  /\ metadata' = DiscoverFailed(e)
                  /\ pc' = "raised"
                  /\ raised_in' = raised_in \cup {"active"}
                  /\ UNCHANGED <<domains, services, technologies>>
             ELSE /\ services' = active_results.services
                  /\ domains' = [domains EXCEPT !.subdomains = subs,
                                                !.live_subdomains = CountLive(subs)]
                  /\ technologies' = all_technologies(active_results.services)
                  /\ discovery_timeline' =
                        add_timeline_event(discovery_timeline, ACTIVE_DISCOVERY,
                                           "Active discovery completed")
                  /\ pc' = "call_deep"
                  /\ UNCHANGED <<metadata, raised_in>>
          /\ tool_failed' =
                IF internal = NoError /\ ~httpx.ok
                THEN tool_failed \cup {"httpx"} ELSE tool_failed
    /\ UNCHANGED <<config, now, endpoints, findings, statistics>>
    /\ UNCHANGED <<cliVars, crawlerVars, unitVars>>

(***************************************************************************)
(* stages/deep.py                                                          *)
(***************************************************************************)
Paths == {"/"}
Fragments == {""}

\* The Endpoint objects _parse_katana_result builds from the lines of
\* katana when the given services are crawled: the URL is request.endpoint
\* as katana printed it.
EndpointsOf(svcs, fragments) ==
    {[url |-> [scheme |-> svcs[k].url.scheme, host |-> svcs[k].url.host,
               path |-> p, fragment |-> f],
      discovered_via |-> "crawl"] :
        k \in 1..Len(svcs), p \in Paths, f \in fragments}

\* The Endpoint objects katana output can be parsed into when the given
\* services are crawled.
EndpointCandidates(svcs) == EndpointsOf(svcs, Fragments)

RECURSIVE SeqsUpTo(_, _)
SeqsUpTo(S, n) ==
    IF n = 0 THEN {<<>>}
    ELSE {<<>>} \cup {<<x>> \o r : x \in S, r \in SeqsUpTo(S, n - 1)}

KatanaOutputs(svcs) == SeqsUpTo(EndpointCandidates(svcs), MaxEndpoints)

\* DeepDiscovery._crawl_services: keeps the first endpoint of every URL
\* string (seen_urls); a failure of katana is re-raised.
RECURSIVE DedupByUrl(_, _)
DedupByUrl(eps, seen_urls) ==
    IF eps = <<>> THEN <<>>
    ELSE IF Head(eps).url \in seen_urls
         THEN DedupByUrl(Tail(eps), seen_urls)
         ELSE <<Head(eps)>> \o DedupByUrl(Tail(eps), seen_urls \cup {Head(eps).url})

crawl_services(katana) ==
    [raised |-> ~katana.ok,
     endpoints |-> IF katana.ok THEN DedupByUrl(katana.out, {}) ELSE <<>>]

\* DeepDiscovery._run_deep_crawler: every discovered URL is wrapped in a
\* DiscoveredURL whose discovered_at is datetime.now(datetime.timezone.utc);
\* datetime is the class here and has no attribute timezone, so building
\* the first object raises AttributeError.
\* NoUrlDiscovery is url_discovery = None.
NoUrlDiscovery == [present |-> FALSE, total_urls |-> 0, pages_visited |-> 0]

run_deep_crawler(crawl) ==
    [raised |-> ~crawl.ok \/ crawl.discovered # {}, urls |-> <<>>,
     url_discovery |->
        [present |-> TRUE, total_urls |-> Cardinality(crawl.discovered),
         pages_visited |-> crawl.visited]]

\* DeepDiscovery.run: both crawlers' failures are caught and logged.
DeepRun(katana, crawl, cfg) ==
    LET k == crawl_services(katana)
        p == run_deep_crawler(crawl)
    IN IF cfg.depth = "deep" /\ cfg.javascript_execution
       THEN [raised |-> FALSE, crawler_used |-> "hybrid",
             endpoints |-> k.endpoints \o (IF p.raised THEN <<>> ELSE p.urls),
             url_discovery |-> IF p.raised THEN NoUrlDiscovery
                               ELSE p.url_discovery]
       ELSE [raised |-> FALSE, crawler_used |-> "katana",
             endpoints |-> k.endpoints,
             url_discovery |-> NoUrlDiscovery]

(***************************************************************************)
(* DiscoveryEngine._run_deep_discovery (core.py 272-317)                   *)
(***************************************************************************)
\* The dependency gate of the Deep and Vulnerability stages (core.py 286, 383).
NoServices == services = <<>>

RunDeepDiscovery_Start ==
    /\ pc = "call_deep"
    /\ metadata' = [metadata EXCEPT !.status = DEEP_DISCOVERY]
    /\ discovery_timeline' =
        add_timeline_event(discovery_timeline, DEEP_DISCOVERY,
                           "Starting web crawling")
    /\ pc' = IF NoServices THEN "call_enrichment" ELSE "in_deep"
    /\ UNCHANGED <<config, now, dataVars, historyVars>>
    /\ UNCHANGED <<cliVars, crawlerVars, unitVars>>

RunDeepDiscovery_Return(katana, crawl, internal) ==
    /\ pc = "in_deep"
    /\ LET deep_results == DeepRun(katana, crawl, config)
           e == StageError(internal, deep_results)
       IN /\ IF e # NoError
             THEN /\ discovery_timeline' =
                        add_timeline_event(discovery_timeline, DEEP_DISCOVERY,
                                           "Deep discovery failed")
                  /\ metadata' = DiscoverFailed(e)
                  /\ pc' = "raised"
                  /\ raised_in' = raised_in \cup {"deep"}
                  /\ UNCHANGED endpoints
             ELSE /\ endpoints' = deep_results.endpoints
                  /\ discovery_timeline' =
                        add_timeline_event(discovery_timeline, DEEP_DISCOVERY,
                                           "Deep discovery completed")
                  /\ pc' = "call_enrichment"
                  /\ UNCHANGED <<metadata, raised_in>>
          /\ tool_failed' =
                IF internal = NoError /\ ~katana.ok
                THEN tool_failed \cup {"katana"} ELSE tool_failed
    /\ UNCHANGED <<config, now, domains, services, technologies, findings,
                   statistics>>
    /\ UNCHANGED <<cliVars, crawlerVars, unitVars>>

(***************************************************************************)
(* DiscoveryEngine._run_enrichment (core.py 319-367)                       *)
(***************************************************************************)
\* The fields of the DiscoveryResult model (models/discovery.py 88-104);
\* assigning any other attribute of a pydantic model raises ValueError.
DiscoveryResultFields ==
    {"metadata", "discovery_timeline", "domains", "services", "technologies",
     "endpoints", "findings", "recommendations", "statistics"}

RunEnrichment_Start ==
    /\ pc = "call_enrichment"
    /\ metadata' = [metadata EXCEPT !.status = ENRICHMENT]
    /\ discovery_timeline' =
        add_timeline_event(discovery_timeline, ENRICHMENT,
                           "Starting infrastructure enrichment")
    /\ pc' = "in_enrichment"
    /\ UNCHANGED <<config, now, dataVars, historyVars>>
    /\ UNCHANGED <<cliVars, crawlerVars, unitVars>>

\* The message of the ValueError an assignment to an undeclared attribute
\* of a pydantic model raises.
NoFieldError == "object has no field"

\* The result of EnrichmentStage.run is stored with
\* self.result.infrastructure = {...}, which is not a field of the model:
\* the try block raises also when the stage module returned normally.
\* The event of the handler is f"Enrichment failed: {e}"; the text of e is
\* kept as the message of the event.
RunEnrichment_Return(internal) ==
    /\ pc = "in_enrichment"
    /\ LET e == IF internal # NoError THEN internal
                ELSE IF "infrastructure" \notin DiscoveryResultFields
                THEN NoFieldError
                ELSE NoError
       IN IF e # NoError
          THEN /\ discovery_timeline' =
                    Append(discovery_timeline,
                           [message |-> e]
                                @@ TimelineEvent(ENRICHMENT, "Enrichment failed"))
               /\ raised_in' = raised_in \cup {"enrichment"}
          ELSE /\ discovery_timeline' =
                    add_timeline_event(discovery_timeline, ENRICHMENT,
                                       "Enrichment completed")
               /\ UNCHANGED raised_in
    /\ pc' = IF config.skip_vuln_scan THEN "skip_vuln" ELSE "call_vuln"
    /\ UNCHANGED <<config, now, metadata, dataVars, tool_failed>>
    /\ UNCHANGED <<cliVars, crawlerVars, unitVars>>

(***************************************************************************)
(* Stage 5 (core.py 90-98, 369-423).  The status is set to COMPLETED at    *)
(* the start of the stage and the events carry the COMPLETED tag.          *)
(***************************************************************************)
\* Mutant: the stage reuses an earlier stage's value.
VulnStageStatus_Deep == DEEP_DISCOVERY

VulnStageStatus == COMPLETED

SkipVulnerabilityScan ==
    /\ pc = "skip_vuln"
    /\ discovery_timeline' =
        add_timeline_event(discovery_timeline, COMPLETED,
            "Vulnerability scanning skipped by user configuration")
    /\ pc' = "call_finalize"
    /\ UNCHANGED <<config, now, metadata, dataVars, historyVars>>
    /\ UNCHANGED <<cliVars, crawlerVars, unitVars>>

RunVulnerabilityScan_Start ==
    /\ pc = "call_vuln"
    /\ metadata' = [metadata EXCEPT !.status = VulnStageStatus]
    /\ discovery_timeline' =
        add_timeline_event(discovery_timeline, VulnStageStatus,
                           "Starting vulnerability scanning")
    /\ pc' = IF NoServices THEN "call_finalize" ELSE "in_vuln"
    /\ UNCHANGED <<config, now, dataVars, historyVars>>
    /\ UNCHANGED <<cliVars, crawlerVars, unitVars>>

\* The findings VulnerabilityScanner.run can return.
ScannerFindings ==
    SeqsUpTo({[severity |-> sv] : sv \in FindingSeverities}, MaxFindings)

\* Mutant: the failure handler falls through to the success path's event.
RunVulnerabilityScan_Return_FallsThrough(vuln_findings, internal) ==
    /\ pc = "in_vuln"
    /\ IF internal # NoError
       THEN /\ discovery_timeline' =
                Append(add_timeline_event(discovery_timeline, VulnStageStatus,
                                          "Vulnerability scanning failed"),
                       TimelineEvent(VulnStageStatus,
                                     "Vulnerability scanning completed"))
            /\ raised_in' = raised_in \cup {"vulnerability"}
            /\ UNCHANGED findings
       ELSE /\ findings' = vuln_findings
            /\ discovery_timeline' =
                add_timeline_event(discovery_timeline, VulnStageStatus,
                                   "Vulnerability scanning completed")
            /\ UNCHANGED raised_in
    /\ pc' = "call_finalize"
    /\ UNCHANGED <<config, now, metadata, domains, services, technologies,
                   endpoints, statistics, tool_failed>>
    /\ UNCHANGED <<cliVars, crawlerVars, unitVars>>

\* internal: the message of the exception VulnerabilityScanner.run raised
\* (a failure of its scanner tool included), NoError when it returned.
RunVulnerabilityScan_Return(vuln_findings, internal) ==
    /\ pc = "in_vuln"
    /\ IF internal # NoError
       THEN /\ discovery_timeline' =
                add_timeline_event(discovery_timeline, VulnStageStatus,
                                   "Vulnerability scanning failed")
            /\ raised_in' = raised_in \cup {"vulnerability"}
            /\ UNCHANGED findings
       ELSE /\ findings' = vuln_findings
            /\ discovery_timeline' =
                add_timeline_event(discovery_timeline, VulnStageStatus,
                                   "Vulnerability scanning completed")
            /\ UNCHANGED raised_in
    /\ pc' = "call_finalize"
    /\ UNCHANGED <<config, now, metadata, domains, services, technologies,
                   endpoints, statistics, tool_failed>>
    /\ UNCHANGED <<cliVars, crawlerVars, unitVars>>

(***************************************************************************)
(* DiscoveryResult.update_statistics (models/discovery.py 112-125) and     *)
(* DiscoveryEngine._finalize (core.py 425-442)                             *)
(***************************************************************************)
\* Mutant: the service count is left at its cached value.
update_statistics_StaleServices ==
    [total_subdomains |->
        IF domains.present THEN Len(domains.subdomains)
        ELSE statistics.total_subdomains,
     live_services |-> statistics.live_services,
     technologies_detected |-> Len(technologies),
     endpoints_discovered |-> Len(endpoints),
     findings_by_severity |->
        [sv \in Severities |->
            Cardinality({i \in 1..Len(findings) : findings[i].severity = sv})]]

update_statistics ==
    [total_subdomains |->
        IF domains.present THEN Len(domains.subdomains)
        ELSE statistics.total_subdomains,
     live_services |-> Len(services),
     technologies_detected |-> Len(technologies),
     endpoints_discovered |-> Len(endpoints),
     findings_by_severity |->
        [sv \in Severities |->
            Cardinality({i \in 1..Len(findings) : findings[i].severity = sv})]]

\* Mutant: finalization marks the run completed without recording the end.
Finalize_NoEndTime ==
    /\ pc = "call_finalize"
    /\ statistics' = update_statistics
    /\ metadata' = [metadata EXCEPT !.status = COMPLETED]
    /\ discovery_timeline' =
        add_timeline_event(discovery_timeline, COMPLETED,
                           "Discovery completed successfully")
    /\ pc' = "returned"
    /\ UNCHANGED <<config, now, domains, services, technologies, endpoints,
                   findings, historyVars>>
    /\ UNCHANGED <<cliVars, crawlerVars, unitVars>>

Finalize ==
    /\ pc = "call_finalize"
    /\ statistics' = update_statistics
    /\ metadata' = [metadata EXCEPT !.end_time = now,
                                    !.duration_seconds = now - metadata.start_time,
                                    !.status = COMPLETED]
    /\ discovery_timeline' =
        add_timeline_event(discovery_timeline, COMPLETED,
                           "Discovery completed successfully")
    /\ pc' = "returned"
    /\ UNCHANGED <<config, now, domains, services, technologies, endpoints,
                   findings, historyVars>>
    /\ UNCHANGED <<cliVars, crawlerVars, unitVars>>

(***************************************************************************)
(* main() of cli.py (118-173): the report run_discovery returns is dumped  *)
(* to the output file; an exception of run_discovery is printed and the    *)
(* process exits with 1.                                                   *)
(***************************************************************************)
Main_SaveResults ==
    /\ cli = "running"
    /\ pc = "returned"
    /\ output' = [written |-> TRUE, metadata |-> metadata,
                  discovery_timeline |-> discovery_timeline,
                  statistics |-> statistics]
    /\ cli' = "exit_0"
    /\ UNCHANGED <<pc, config, now, resultVars, historyVars, crawlerVars,
                   unitVars>>

Main_Error ==
    /\ cli = "running"
    /\ pc = "raised"
    /\ cli' = "exit_1"
    /\ UNCHANGED <<pc, config, now, resultVars, historyVars, output,
                   crawlerVars, unitVars>>

Next ==
    \/ Tick
    \/ \E t \in Targets : Discover(t)
    \/ RunPassiveDiscovery_Start
    \/ \E subfinder \in SubfinderOutcomes, dns \in DnsOutcomes,
          internal \in {NoError} \cup ErrorMessages :
            \E kept \in LimitChoices(subfinder.out, config.max_subdomains) :
                RunPassiveDiscovery_Return(subfinder, kept, dns, internal)
    \/ RunPortDiscovery_Start
    \/ \E naabu \in NaabuOutcomes, internal \in {NoError} \cup ErrorMessages :
            RunPortDiscovery_Return(naabu, internal)
    \/ RunActiveDiscovery_Start
    \/ \E ok \in BOOLEAN, internal \in {NoError} \cup ErrorMessages :
          \E out \in HttpxOutputs({domains.subdomains[i].name :
                                      i \in 1..Len(domains.subdomains)}) :
            RunActiveDiscovery_Return([ok |-> ok, out |-> out], internal)
    \/ RunDeepDiscovery_Start
    \/ \E ok \in BOOLEAN, internal \in {NoError} \cup ErrorMessages :
          \E out \in KatanaOutputs(services),
             crawl \in [ok : BOOLEAN,
                        discovered : SUBSET {services[k].url : k \in 1..Len(services)},
                        visited : {Len(services)}] :
            RunDeepDiscovery_Return([ok |-> ok, out |-> out], crawl, internal)
    \/ RunEnrichment_Start
    \/ \E internal \in {NoError} \cup ErrorMessages : RunEnrichment_Return(internal)
    \/ SkipVulnerabilityScan
    \/ RunVulnerabilityScan_Start
    \/ \E f \in ScannerFindings, internal \in {NoError} \cup ErrorMessages :
            RunVulnerabilityScan_Return(f, internal)
    \/ Finalize
    \/ Main_SaveResults
    \/ Main_Error

Spec == Init /\ [][Next]_vars

(***************************************************************************)
(* DeepURLCrawler (crawler/deep_crawler.py).  crawl() and the recursive    *)
(* _crawl_url run on one task; the active _crawl_url calls are the frames  *)
(* of stack.  A step is one iteration of a loop: the call it makes runs up *)
(* to the point where the callee starts its own loop over the links.       *)
(***************************************************************************)
pipelineVars == <<pc, config, now, resultVars, historyVars, cliVars>>

\* The engine of core.py is not part of a crawl.
EngineNotRun ==
    /\ pc = "idle"
    /\ config = DEPTH_CONFIGS["deep"]
    /\ now = 0
    /\ metadata = NoMetadata
    /\ discovery_timeline = <<>>
    /\ domains = NoDomains
    /\ services = <<>>
    /\ technologies = <<>>
    /\ endpoints = <<>>
    /\ findings = <<>>
    /\ statistics = DefaultStatistics
    /\ raised_in = {}
    /\ tool_failed = {}
    /\ cli = "running"
    /\ output = NoOutput

\* The start URLs are the caller's strings: one carries a fragment.
SeedPages == {PageA, PageAx, PageC}

\* The start URLs of a later crawl() on the same crawler.
NextStartUrls == {<<>>, <<PageC>>, <<PageA>>}

\* DeepURLCrawler.__init__ and the arguments of crawl().
CrawlerInit ==
    /\ EngineNotRun
    /\ GatewayNotUsed
    /\ AuthNotRun
    /\ CdnNotRun
    /\ DeepNotRun
    /\ PartsNotRun
    /\ start_urls \in SeqsUpTo(SeedPages, MaxSeeds)
    /\ max_depth \in 0..MaxCrawlDepth
    /\ max_urls \in (0..MaxUrlsCap) \cup {ScenarioMaxUrls}
    /\ graph \in Graphs
    /\ cpc = "idle"
    /\ seed_idx = 0
    /\ stack = <<>>
    /\ visited_urls = {}
    /\ discovered_urls = {}
    /\ rendered = {}
    /\ failed_pages = {}
    /\ crawls = 0
    /\ open_pages = {}

\* _normalize_url formats scheme://netloc/path[?query] from the parts
\* urlparse returns: neither the parameters of the last path segment nor
\* the fragment are written back.
normalize_url(u) ==
    [scheme |-> u.scheme, netloc |-> u.netloc, path |-> u.path, params |-> "",
     query |-> u.query, fragment |-> ""]

\* URLExtractor.normalize_url on an absolute URL: urlunparse of the six
\* parts with an empty fragment.
URLExtractor_normalize_url(u) == [u EXCEPT !.fragment = ""]

\* _is_same_domain: equality of the netloc parts.
is_same_domain(url1, url2) == url1.netloc = url2.netloc

\* The document page.goto(url) loads: the fragment is not part of the
\* request.
Document(url) == [url EXCEPT !.fragment = ""]

\* The URLs _extract_urls collects from the page before it normalizes them.
RawLinks(url) == graph[Document(url)]

\* Mutant: the collected URLs are returned as they are.
extract_urls_Raw(url) == RawLinks(url)

\* _extract_urls: the hrefs of the page, normalized.
extract_urls(url) == {normalize_url(l) : l \in RawLinks(url)}

\* len(self.discovered_urls) >= self.max_urls
LimitReached == Cardinality(discovered_urls) >= max_urls

\* Mutant: the depth test is off by one.
TooDeep_OffByOne(depth) == depth > max_depth + 1

\* depth > self.max_depth
TooDeep(depth) == depth > max_depth

\* Mutant: a navigation that raises ends every active call.
CrawlUrlCall_FailureAborts(url, depth, seed, goto_ok, base) ==
    IF TooDeep(depth) \/ LimitReached \/ url \in visited_urls
    THEN /\ stack' = base
         /\ UNCHANGED <<visited_urls, discovered_urls, rendered, failed_pages,
                        open_pages>>
    ELSE /\ visited_urls' = visited_urls \cup {url}
         /\ open_pages' = open_pages \cup {url}
         /\ rendered' = rendered \cup {[url |-> url, depth |-> depth, seed |-> seed]}
         /\ IF goto_ok
            THEN /\ discovered_urls' = discovered_urls \cup extract_urls(url)
                 /\ stack' = Append(base, [url |-> url, depth |-> depth,
                                           pending |-> extract_urls(url),
                                           iterated |-> FALSE])
                 /\ UNCHANGED failed_pages
            ELSE /\ stack' = <<>>
                 /\ failed_pages' = failed_pages \cup {url}
                 /\ UNCHANGED discovered_urls

\* A call of _crawl_url(context, url, depth) made with the frames base below
\* it, up to the start of its loop (deep_crawler.py 87-113).  goto_ok: the
\* navigation succeeded; when it raises, the handler logs and the call
\* returns with the page marked visited, and the page it opened stays open:
\* page.close() is the last statement of the try block.
CrawlUrlCall(url, depth, seed, goto_ok, base) ==
    IF TooDeep(depth) \/ LimitReached \/ url \in visited_urls
    THEN /\ stack' = base
         /\ UNCHANGED <<visited_urls, discovered_urls, rendered, failed_pages,
                        open_pages>>
    ELSE /\ visited_urls' = visited_urls \cup {url}
         /\ open_pages' = open_pages \cup {url}
         /\ rendered' = rendered \cup {[url |-> url, depth |-> depth, seed |-> seed]}
         /\ IF goto_ok
            THEN /\ discovered_urls' = discovered_urls \cup extract_urls(url)
                 /\ stack' = Append(base, [url |-> url, depth |-> depth,
                                           pending |-> extract_urls(url),
                                           iterated |-> FALSE])
                 /\ UNCHANGED failed_pages
            ELSE /\ stack' = base
                 /\ failed_pages' = failed_pages \cup {url}
                 /\ UNCHANGED discovered_urls

\* crawl(), up to the loop over the start URLs (deep_crawler.py 43-58).
Crawl ==
    /\ cpc = "idle"
    /\ cpc' = IF start_urls = <<>> THEN "done" ELSE "seeds"
    /\ seed_idx' = 1
    /\ crawls' = crawls + 1
    /\ UNCHANGED <<start_urls, max_depth, max_urls, graph, stack, visited_urls,
                   discovered_urls, rendered, failed_pages, open_pages,
                   pipelineVars, unitVars>>

\* Mutant: the loop over the start URLs has no break.
SeedLoopBreaks_Never == FALSE

\* The break of the loop over the start URLs (deep_crawler.py 68-71): it is
\* tested after each start URL's call has returned.
SeedLoopBreaks == seed_idx > 1 /\ LimitReached

\* One iteration of the loop over the start URLs (deep_crawler.py 61-63).
CrawlSeed(goto_ok) ==
    /\ cpc = "seeds"
    /\ stack = <<>>
    /\ seed_idx <= Len(start_urls)
    /\ ~SeedLoopBreaks
    /\ CrawlUrlCall(start_urls[seed_idx], 0, start_urls[seed_idx], goto_ok, <<>>)
    /\ seed_idx' = seed_idx + 1
    /\ UNCHANGED <<start_urls, max_depth, max_urls, graph, cpc, crawls,
                   pipelineVars, unitVars>>

\* Mutant: crawl() returns without closing the browser.
CrawlFinish_BrowserLeftOpen ==
    /\ cpc = "seeds"
    /\ stack = <<>>
    /\ seed_idx > Len(start_urls) \/ SeedLoopBreaks
    /\ cpc' = "done"
    /\ UNCHANGED <<start_urls, max_depth, max_urls, graph, seed_idx, stack,
                   visited_urls, discovered_urls, rendered, failed_pages,
                   crawls, open_pages, pipelineVars, unitVars>>

\* The end of crawl() (deep_crawler.py 68-76): browser.close() closes the
\* context and every page that is still open in it.
CrawlFinish ==
    /\ cpc = "seeds"
    /\ stack = <<>>
    /\ seed_idx > Len(start_urls) \/ SeedLoopBreaks
    /\ cpc' = "done"
    /\ open_pages' = {}
    /\ UNCHANGED <<start_urls, max_depth, max_urls, graph, seed_idx, stack,
                   visited_urls, discovered_urls, rendered, failed_pages,
                   crawls, pipelineVars, unitVars>>

\* The break of the loop over the links (deep_crawler.py 120-122): it is
\* tested at the end of every iteration.
LinkLoopBreaks(frame) == frame.iterated /\ LimitReached

\* Mutant: every link is followed, whatever its netloc.
FollowLink_AnyDomain(url, link) == TRUE

FollowLink(url, link) == is_same_domain(url, link)

\* One iteration of the loop over the links of the innermost call
\* (deep_crawler.py 116-118); a set is iterated in no particular order.
CrawlLink(link, goto_ok) ==
    /\ cpc = "seeds"
    /\ stack # <<>>
    /\ LET frame == Last(stack)
           base == [stack EXCEPT ![Len(stack)] =
                        [frame EXCEPT !.pending = frame.pending \ {link},
                                      !.iterated = TRUE]]
       IN /\ link \in frame.pending
          /\ ~LinkLoopBreaks(frame)
          /\ IF FollowLink(frame.url, link)
             THEN CrawlUrlCall(link, frame.depth + 1, start_urls[seed_idx - 1],
                               goto_ok, base)
             ELSE /\ stack' = base
                  /\ UNCHANGED <<visited_urls, discovered_urls, rendered,
                                 failed_pages, open_pages>>
    /\ UNCHANGED <<start_urls, max_depth, max_urls, graph, cpc, seed_idx,
                   crawls, pipelineVars, unitVars>>

\* The innermost call leaves its loop, closes its page and returns
\* (deep_crawler.py 120-124).
CrawlUrlReturn ==
    /\ cpc = "seeds"
    /\ stack # <<>>
    /\ Last(stack).pending = {} \/ LinkLoopBreaks(Last(stack))
    /\ stack' = SubSeq(stack, 1, Len(stack) - 1)
    /\ open_pages' = open_pages \ {Last(stack).url}
    /\ UNCHANGED <<start_urls, max_depth, max_urls, graph, cpc, seed_idx,
                   visited_urls, discovered_urls, rendered, failed_pages,
                   crawls, pipelineVars, unitVars>>

\* The caller invokes crawl() once more on the same crawler: __init__ is
\* the only place that creates the two sets (deep_crawler.py 25-26).
CrawlAgain(urls) ==
    /\ cpc = "done"
    /\ crawls < MaxCrawls
    /\ cpc' = "idle"
    /\ start_urls' = urls
    /\ seed_idx' = 0
    /\ UNCHANGED <<max_depth, max_urls, graph, stack, visited_urls,
                   discovered_urls, rendered, failed_pages, crawls, open_pages,
                   pipelineVars, unitVars>>

CrawlerNext ==
    \/ Crawl
    \/ \E goto_ok \in BOOLEAN : CrawlSeed(goto_ok)
    \/ CrawlFinish
    \/ \E link \in Pages, goto_ok \in BOOLEAN : CrawlLink(link, goto_ok)
    \/ CrawlUrlReturn
    \/ \E urls \in NextStartUrls : CrawlAgain(urls)

CrawlerSpec == CrawlerInit /\ [][CrawlerNext]_vars

(***************************************************************************)
(* ToolRunner (tools/runner.py).  Every operation starts one subprocess    *)
(* and awaits process.communicate() under asyncio.wait_for; the calls of   *)
(* different operations may be in flight together.                         *)
(***************************************************************************)
\* ToolRunner.__init__: no call has been made.
GatewayInit ==
    /\ EngineNotRun
    /\ CrawlerNotBuilt
    /\ GatewayNotUsed
    /\ AuthNotRun
    /\ CdnNotRun
    /\ DeepNotRun
    /\ PartsNotRun

\* run_subfinder goes through run(); the other operations start and await
\* their subprocess themselves.
UsesRun(op) == op = "subfinder"

\* The exception a call raises when the tool is not installed: run() tests
\* shutil.which first, create_subprocess_exec raises for the others.
NotInstalledError(op) ==
    IF UsesRun(op) THEN "ToolNotFoundError" ELSE "FileNotFoundError"

\* The exception a call raises when wait_for expires: run() re-raises the
\* TimeoutError, run_naabu converts it, the others let it through.
TimeoutFailure(op) ==
    IF op = "naabu" THEN "ToolExecutionError" ELSE "TimeoutError"

\* The subprocess after the handler of the timeout: process.kill() and
\* process.wait() stand in run() only.
AfterTimeout(op) == IF UsesRun(op) THEN "killed" ELSE "running"

\* The call of an operation, up to its await.
Invoke(op, installed) ==
    /\ call[op] = "idle"
    /\ IF installed
       THEN /\ process' = [process EXCEPT ![op] = "running"]
            /\ call' = [call EXCEPT ![op] = "awaiting"]
       ELSE /\ call' = [call EXCEPT ![op] = NotInstalledError(op)]
            /\ UNCHANGED process
    /\ UNCHANGED <<pipelineVars, crawlerVars, authVars, cdnVars, deepVars, partVars>>

\* The subprocess ends within the timeout: communicate() returns and the
\* call returns the decoded output.
Completes(op) ==
    /\ call[op] = "awaiting"
    /\ process' = [process EXCEPT ![op] = "exited"]
    /\ call' = [call EXCEPT ![op] = "returned"]
    /\ UNCHANGED <<pipelineVars, crawlerVars, authVars, cdnVars, deepVars, partVars>>

\* wait_for expires: it cancels communicate() and raises TimeoutError in
\* the call.
TimesOut(op) ==
    /\ call[op] = "awaiting"
    /\ process' = [process EXCEPT ![op] = AfterTimeout(op)]
    /\ call' = [call EXCEPT ![op] = TimeoutFailure(op)]
    /\ UNCHANGED <<pipelineVars, crawlerVars, authVars, cdnVars, deepVars, partVars>>

\* A subprocess nobody awaits any more ends on its own.
ProcessExits(op) ==
    /\ call[op] # "awaiting"
    /\ process[op] = "running"
    /\ process' = [process EXCEPT ![op] = "exited"]
    /\ UNCHANGED <<call, pipelineVars, crawlerVars, authVars, cdnVars, deepVars,
                   partVars>>

GatewayNext ==
    \/ \E op \in GatewayOps, installed \in BOOLEAN : Invoke(op, installed)
    \/ \E op \in GatewayOps : Completes(op)
    \/ \E op \in GatewayOps : TimesOut(op)
    \/ \E op \in GatewayOps : ProcessExits(op)

GatewaySpec == GatewayInit /\ [][GatewayNext]_vars

(***************************************************************************)
(* AuthenticatedDiscovery._extract_path_parameters (stages/                *)
(* authenticated.py 240-284).  A path is the list of its non-empty         *)
(* segments, a segment the sequence of its characters.  Every pattern of   *)
(* PATH_PARAM_PATTERNS is searched in "/" + segment + "/" and has the form *)
(* /(...)(?:/|$) with a group that cannot hold a "/": it matches exactly   *)
(* when the group matches the whole segment.                               *)
(***************************************************************************)
Digits == {"0", "1", "2", "3", "4", "5", "6", "7", "8", "9"}

HexLower == Digits \cup {"a", "b", "c", "d", "e", "f"}

LowerLetters ==
    {"a", "b", "c", "d", "e", "f", "g", "h", "i", "j", "k", "l", "m", "n",
     "o", "p", "q", "r", "s", "t", "u", "v", "w", "x", "y", "z"}

\* [a-z0-9\-_]
SlugChars == LowerLetters \cup Digits \cup {"-", "_"}

\* [a-z0-9._%+-]
EmailLocalChars == LowerLetters \cup Digits \cup {".", "_", "%", "+", "-"}

\* [a-z0-9.-]
EmailDomainChars == LowerLetters \cup Digits \cup {".", "-"}

AllIn(s, chars) == \A i \in 1..Len(s) : s[i] \in chars

\* [0-9a-f]{8}-[0-9a-f]{4}-[0-9a-f]{4}-[0-9a-f]{4}-[0-9a-f]{12}
IsUuid(s) ==
    /\ Len(s) = 36
    /\ \A i \in 1..Len(s) :
        IF i \in {9, 14, 19, 24} THEN s[i] = "-" ELSE s[i] \in HexLower

\* \d+
IsId(s) == Len(s) >= 1 /\ AllIn(s, Digits)

\* [a-z0-9\-_]+
IsSlug(s) == Len(s) >= 1 /\ AllIn(s, SlugChars)

\* [a-z0-9._%+-]+@[a-z0-9.-]+\.[a-z]{2,}
IsEmail(s) ==
    \E at \in 1..Len(s), dot \in 1..Len(s) :
        /\ s[at] = "@"
        /\ s[dot] = "."
        /\ at > 1
        /\ dot > at + 1
        /\ Len(s) >= dot + 2
        /\ AllIn(SubSeq(s, 1, at - 1), EmailLocalChars)
        /\ AllIn(SubSeq(s, at + 1, dot - 1), EmailDomainChars)
        /\ AllIn(SubSeq(s, dot + 1, Len(s)), LowerLetters)

\* [a-f0-9]{32,}
IsHash(s) == Len(s) >= 32 /\ AllIn(s, HexLower)

\* \d{4}-\d{2}-\d{2}
IsDate(s) ==
    /\ Len(s) = 10
    /\ \A i \in 1..Len(s) :
        IF i \in {5, 8} THEN s[i] = "-" ELSE s[i] \in Digits

\* The names of PATH_PARAM_PATTERNS, in the order of the list.
PATH_PARAM_PATTERNS == <<"uuid", "id", "slug", "email", "hash", "date">>

PatternMatches(param_type, s) ==
    CASE param_type = "uuid" -> IsUuid(s)
      [] param_type = "id" -> IsId(s)
      [] param_type = "slug" -> IsSlug(s)
      [] param_type = "email" -> IsEmail(s)
      [] param_type = "hash" -> IsHash(s)
      [] param_type = "date" -> IsDate(s)

\* The loop over the patterns with its break: the first pattern of the
\* order that matches, "none" when the loop runs to its end.
FirstMatch(order, s) ==
    LET hits == {k \in 1..Len(order) : PatternMatches(order[k], s)}
    IN IF hits = {} THEN "none"
       ELSE order[CHOOSE k \in hits : \A h \in hits : k <= h]

\* Segments of the paths the endpoints of a crawl hold.
SegUuid ==
    <<"1", "2", "3", "e", "4", "5", "6", "7", "-", "e", "8", "9", "b", "-",
      "1", "2", "d", "3", "-", "a", "4", "5", "6", "-", "4", "2", "6", "6",
      "1", "4", "1", "7", "4", "0", "0", "0">>

SegId == <<"4", "2">>

SegHash ==
    <<"d", "4", "1", "d", "8", "c", "d", "9", "8", "f", "0", "0", "b", "2",
      "0", "4", "e", "9", "8", "0", "0", "9", "9", "8", "e", "c", "f", "8",
      "4", "2", "7", "e">>

SegDate == <<"2", "0", "2", "4", "-", "0", "1", "-", "1", "5">>

SegEmail == <<"a", "@", "b", ".", "c", "o">>

SegSlug == <<"u", "s", "e", "r", "s">>

ExampleSegments == {SegUuid, SegId, SegHash, SegDate, SegEmail, SegSlug}

\* The segments that follow the first one in the paths of the endpoints.
InnerSegments == {SegId, SegDate}

\* The paths of the endpoints, split at "/": no segment, or a first segment
\* of any kind followed by identifiers and dates.
ExamplePaths ==
    {<<>>} \cup {<<first>> \o rest :
                    first \in ExampleSegments,
                    rest \in SeqsUpTo(InnerSegments, MaxSegments - 1)}

\* The arguments of _extract_path_parameters.
AuthInit ==
    /\ EngineNotRun
    /\ CrawlerNotBuilt
    /\ GatewayNotUsed
    /\ CdnNotRun
    /\ DeepNotRun
    /\ PartsNotRun
    /\ auth_endpoints \in SeqsUpTo(ExamplePaths, MaxAuthEndpoints)
    /\ auth_pos = <<1, 1>>
    /\ path_params = <<>>
    /\ param_order = <<>>
    /\ auth_calls = 1
    /\ first_output = <<>>

\* Mutant: every value seen is appended, seen before or not.
MatchSegment_KeepsRepeats ==
    /\ auth_pos[1] <= Len(auth_endpoints)
    /\ auth_pos[2] <= Len(auth_endpoints[auth_pos[1]])
    /\ LET segment == auth_endpoints[auth_pos[1]][auth_pos[2]]
           param_type == FirstMatch(PATH_PARAM_PATTERNS, segment)
           key == <<auth_pos[2] - 1, param_type>>
       IN /\ path_params' =
                IF param_type = "none" THEN path_params
                ELSE IF key \notin DOMAIN path_params
                THEN path_params @@ (key :> <<segment>>)
                ELSE [path_params EXCEPT ![key] = Append(@, segment)]
          /\ param_order' =
                IF param_type # "none" /\ key \notin DOMAIN path_params
                THEN Append(param_order, key) ELSE param_order
    /\ auth_pos' = <<auth_pos[1], auth_pos[2] + 1>>
    /\ UNCHANGED <<auth_endpoints, auth_calls, first_output, pipelineVars,
                   crawlerVars, gatewayVars, cdnVars, deepVars, partVars>>

\* One iteration of the loop over the segments (authenticated.py 257-278):
\* the parameter is keyed by the position and the name of the first pattern
\* that matches, and collects the values seen, each once.  A dict keeps its
\* keys in insertion order.
MatchSegment ==
    /\ auth_pos[1] <= Len(auth_endpoints)
    /\ auth_pos[2] <= Len(auth_endpoints[auth_pos[1]])
    /\ LET segment == auth_endpoints[auth_pos[1]][auth_pos[2]]
           param_type == FirstMatch(PATH_PARAM_PATTERNS, segment)
           key == <<auth_pos[2] - 1, param_type>>
       IN /\ path_params' =
                IF param_type = "none" THEN path_params
                ELSE IF key \notin DOMAIN path_params
                THEN path_params @@ (key :> <<segment>>)
                ELSE IF segment \in Range(path_params[key]) THEN path_params
                ELSE [path_params EXCEPT ![key] = Append(@, segment)]
          /\ param_order' =
                IF param_type # "none" /\ key \notin DOMAIN path_params
                THEN Append(param_order, key) ELSE param_order
    /\ auth_pos' = <<auth_pos[1], auth_pos[2] + 1>>
    /\ UNCHANGED <<auth_endpoints, auth_calls, first_output, pipelineVars,
                   crawlerVars, gatewayVars, cdnVars, deepVars, partVars>>

\* The loop over the endpoints moves to the next one (authenticated.py 252-254).
NextEndpoint ==
    /\ auth_pos[1] <= Len(auth_endpoints)
    /\ auth_pos[2] > Len(auth_endpoints[auth_pos[1]])
    /\ auth_pos' = <<auth_pos[1] + 1, 1>>
    /\ UNCHANGED <<auth_endpoints, path_params, param_order, auth_calls,
                   first_output, pipelineVars, crawlerVars, gatewayVars,
                   cdnVars, deepVars, partVars>>

\* list(path_params.values()) (authenticated.py 280): the PathParameter
\* objects in the order their keys were inserted.
PathParameterList ==
    [i \in 1..Len(param_order) |->
        [name |-> param_order[i][2],
         position |-> param_order[i][1],
         example_values |-> path_params[param_order[i]]]]

\* The call returns its list and the caller calls the function once more
\* with the same endpoint list: path_params is a local of each call.
ExtractAgain ==
    /\ auth_pos[1] > Len(auth_endpoints)
    /\ auth_calls = 1
    /\ first_output' = PathParameterList
    /\ auth_calls' = 2
    /\ auth_pos' = <<1, 1>>
    /\ path_params' = <<>>
    /\ param_order' = <<>>
    /\ UNCHANGED <<auth_endpoints, pipelineVars, crawlerVars, gatewayVars,
                   cdnVars, deepVars, partVars>>

AuthNext ==
    \/ MatchSegment
    \/ NextEndpoint
    \/ ExtractAgain

AuthSpec == AuthInit /\ [][AuthNext]_vars

(***************************************************************************)
(* EnrichmentStage._detect_cdn_providers (stages/enrichment.py 192-222).   *)
(* A text is the sequence of its characters; the patterns hold no regex    *)
(* operator, so re.search is the search of a substring.                    *)
(***************************************************************************)
CDN_PATTERNS ==
    [Cloudflare |->
        {<<"c", "l", "o", "u", "d", "f", "l", "a", "r", "e">>,
         <<"c", "f", "-", "r", "a", "y">>,
         <<"_", "_", "c", "f", "d", "u", "i", "d">>},
     Akamai |->
        {<<"a", "k", "a", "m", "a", "i">>,
         <<"a", "k", "a", "m", "a", "i", "h", "d">>},
     Fastly |->
        {<<"f", "a", "s", "t", "l", "y">>,
         <<"x", "-", "f", "a", "s", "t", "l", "y">>},
     CloudFront |->
        {<<"c", "l", "o", "u", "d", "f", "r", "o", "n", "t">>,
         <<"x", "-", "a", "m", "z", "-", "c", "f">>},
     MaxCDN |->
        {<<"m", "a", "x", "c", "d", "n">>}]

CdnProviders == DOMAIN CDN_PATTERNS

\* str.lower() on the characters the texts of the model hold.
LowerChar(c) ==
    CASE c = "C" -> "c"
      [] c = "F" -> "f"
      [] c = "N" -> "n"
      [] OTHER -> c

Lowered(text) == [i \in 1..Len(text) |-> LowerChar(text[i])]

\* ' '.join(tech_names)
RECURSIVE JoinBySpace(_)
JoinBySpace(names) ==
    IF names = <<>> THEN <<>>
    ELSE IF Len(names) = 1 THEN Head(names)
    ELSE Head(names) \o <<" ">> \o JoinBySpace(Tail(names))

\* f"{server.lower()} {' '.join(tech_names)}"
Searchable(service) ==
    Lowered(service.server) \o <<" ">> \o
        JoinBySpace([k \in 1..Len(service.technologies) |->
                        Lowered(service.technologies[k])])

\* re.search(pattern, searchable, re.IGNORECASE) for one of the patterns of
\* the provider.
CdnMatches(cdn_name, service) ==
    \E pattern \in CDN_PATTERNS[cdn_name] :
        IsInfix(pattern, Lowered(Searchable(service)))

\* The server headers and the technology names httpx reports (no server
\* header: service.server or '').
ServerHeaders == {<<>>, <<"c", "l", "o", "u", "d", "f", "l", "a", "r", "e">>}

TechnologyNames == {<<"F", "a", "s", "t", "l", "y">>, <<"N", "g", "i", "n", "x">>}

CdnServiceExamples ==
    {[url |-> AllServices[k].url, server |-> sv, technologies |-> tn] :
        k \in {1, 3}, sv \in ServerHeaders,
        tn \in {<<>>} \cup {<<t>> : t \in TechnologyNames}}

\* The argument of _detect_cdn_providers: services of distinct URLs.
CdnInit ==
    /\ EngineNotRun
    /\ CrawlerNotBuilt
    /\ GatewayNotUsed
    /\ AuthNotRun
    /\ DeepNotRun
    /\ PartsNotRun
    /\ cdn_services \in SeqsUpTo(CdnServiceExamples, MaxCdnServices)
    /\ \A i \in 1..Len(cdn_services), j \in 1..Len(cdn_services) :
        cdn_services[i].url = cdn_services[j].url => i = j
    /\ cdn_idx = 1
    /\ cdn_mappings = <<>>

\* One iteration of the loop over the services (enrichment.py 203-220):
\* the loop over the providers runs to its end, the break leaves the loop
\* over the patterns of one provider.
DetectCdn ==
    /\ cdn_idx <= Len(cdn_services)
    /\ LET service == cdn_services[cdn_idx]
           matched == {c \in CdnProviders : CdnMatches(c, service)}
       IN cdn_mappings' =
            [c \in DOMAIN cdn_mappings \cup matched |->
                (IF c \in DOMAIN cdn_mappings THEN cdn_mappings[c] ELSE {})
                \cup (IF c \in matched THEN {service.url} ELSE {})]
    /\ cdn_idx' = cdn_idx + 1
    /\ UNCHANGED <<cdn_services, pipelineVars, crawlerVars, gatewayVars,
                   authVars, deepVars, partVars>>

CdnNext == DetectCdn

CdnSpec == CdnInit /\ [][CdnNext]_vars

(***************************************************************************)
(* DeepDiscovery.run (stages/deep.py 45-117) on its own, with katana       *)
(* output of several lines whose URLs may carry a fragment.                *)
(***************************************************************************)
KatanaFragments == {"", "top"}

KatanaLines(svcs) == SeqsUpTo(EndpointsOf(svcs, KatanaFragments), MaxKatanaLines)

\* The stage is built with a configuration and called with the services the
\* Active stage found (the orchestrator calls it with one service at least).
DeepInit ==
    /\ EngineNotRun
    /\ CrawlerNotBuilt
    /\ GatewayNotUsed
    /\ AuthNotRun
    /\ CdnNotRun
    /\ PartsNotRun
    /\ deep_services \in HttpxOutputs(SubNames) \ {<<>>}
    /\ deep_config \in Configs
    /\ stage_results = <<>>
    /\ crawler_outcome = NotCrawled

\* DeepDiscovery.run, from the call to the DeepResults it returns, for
\* every output of katana and of the Playwright crawler.
DeepDiscovery_Run ==
    /\ stage_results = <<>>
    /\ \E ok \in BOOLEAN :
          \E out \in KatanaLines(deep_services),
             crawl \in [ok : BOOLEAN,
                        discovered : SUBSET {e.url : e \in
                                        EndpointsOf(deep_services, {""})},
                        visited : 0..Len(deep_services)] :
            /\ stage_results' =
                    DeepRun([ok |-> ok, out |-> out], crawl, deep_config)
            /\ crawler_outcome' = crawl
    /\ UNCHANGED <<deep_services, deep_config, pipelineVars, crawlerVars,
                   gatewayVars, authVars, cdnVars, partVars>>

DeepNext == DeepDiscovery_Run

DeepSpec == DeepInit /\ [][DeepNext]_vars

(***************************************************************************)
(* config.py: get_config and the frozen DiscoveryConfig.  An instance is   *)
(* the record of its fields; cfg_ref tells whether the instance returned   *)
(* is the one the dict DEPTH_CONFIGS holds or a newly constructed one.     *)
(***************************************************************************)
\* One keyword argument, given or not.
Keyword(name, values) == {<<>>} \cup {name :> v : v \in values}

\* The keyword arguments get_config is called with; "color" names no field.
OverrideChoices ==
    {a @@ b @@ c @@ d :
        a \in Keyword("timeout", {1200}),
        b \in Keyword("javascript_execution", BOOLEAN),
        c \in Keyword("skip_vuln_scan", {TRUE}),
        d \in Keyword("color", {"red"})}

DepthChoices == {"shallow", "normal", "deep", "extreme"}

\* DEPTH_CONFIGS.get(depth, DEPTH_CONFIGS["normal"])
base_config(depth) ==
    IF depth \in DOMAIN presets THEN presets[depth] ELSE presets["normal"]

\* DiscoveryConfig(**config_dict): the fields of the model are taken from
\* the dict, a key that names no field is ignored.
DiscoveryConfig(config_dict) ==
    [f \in DOMAIN DEPTH_CONFIGS["normal"] |-> config_dict[f]]

\* base_config.model_dump() followed by config_dict.update(overrides)
config_dict_of(base, overrides) == overrides @@ base

ConfigInit ==
    /\ EngineNotRun
    /\ CrawlerNotBuilt
    /\ GatewayNotUsed
    /\ AuthNotRun
    /\ CdnNotRun
    /\ DeepNotRun
    /\ PassiveNotRun
    /\ PortConfigNotRun
    /\ ActiveNotRun
    /\ presets = DEPTH_CONFIGS
    /\ cfg_depth \in DepthChoices
    /\ cfg_overrides \in OverrideChoices
    /\ cfg_result = DEPTH_CONFIGS["normal"]
    /\ cfg_ref = "none"
    /\ cfg_error = NoError

\* get_config (config.py 104-114): without overrides the caller gets the
\* preset instance itself, with overrides a new instance.
get_config ==
    /\ cfg_ref = "none"
    /\ LET base == base_config(cfg_depth)
       IN IF DOMAIN cfg_overrides # {}
          THEN /\ cfg_result' =
                    DiscoveryConfig(config_dict_of(base, cfg_overrides))
               /\ cfg_ref' = "new"
          ELSE /\ cfg_result' = base
               /\ cfg_ref' = IF cfg_depth \in DOMAIN presets
                             THEN cfg_depth ELSE "normal"
    /\ UNCHANGED <<presets, cfg_depth, cfg_overrides, cfg_error>>
    /\ UNCHANGED <<pipelineVars, crawlerVars, gatewayVars, authVars, cdnVars,
                   deepVars, passiveVars, portVars, activeVars>>

\* Mutant: the model is not frozen, the assignment writes the instance.
DiscoveryConfig_setattr_Mutable(field, value) ==
    /\ cfg_ref # "none"
    /\ cfg_error = NoError
    /\ cfg_result' = [cfg_result EXCEPT ![field] = value]
    /\ presets' = IF cfg_ref \in DOMAIN presets
                  THEN [presets EXCEPT ![cfg_ref][field] = value]
                  ELSE presets
    /\ cfg_error' = "assigned"
    /\ UNCHANGED <<cfg_depth, cfg_overrides, cfg_ref>>
    /\ UNCHANGED <<pipelineVars, crawlerVars, gatewayVars, authVars, cdnVars,
                   deepVars, passiveVars, portVars, activeVars>>

\* config.field = value on the instance get_config returned: the model is
\* frozen (config.py 47-48), the assignment raises and writes nothing.
DiscoveryConfig_setattr(field, value) ==
    /\ cfg_ref # "none"
    /\ cfg_error = NoError
    /\ cfg_error' = "frozen_instance"
    /\ UNCHANGED <<presets, cfg_depth, cfg_overrides, cfg_result, cfg_ref>>
    /\ UNCHANGED <<pipelineVars, crawlerVars, gatewayVars, authVars, cdnVars,
                   deepVars, passiveVars, portVars, activeVars>>

ConfigNext ==
    \/ get_config
    \/ DiscoveryConfig_setattr("timeout", 1)
    \/ DiscoveryConfig_setattr("javascript_execution", FALSE)

ConfigSpec == ConfigInit /\ [][ConfigNext]_vars

(***************************************************************************)
(* PassiveDiscovery.run (stages/passive.py 41-101) on its own.  The two    *)
(* coroutines given to asyncio.gather run on the event loop in either      *)
(* order; each catches the failure of the tool it calls.                   *)
(***************************************************************************)
WhoisRecord == "WHOISData"

PassiveInit ==
    /\ EngineNotRun
    /\ CrawlerNotBuilt
    /\ GatewayNotUsed
    /\ AuthNotRun
    /\ CdnNotRun
    /\ DeepNotRun
    /\ ConfigNotRun
    /\ PortConfigNotRun
    /\ ActiveNotRun
    /\ passive_config \in {DEPTH_CONFIGS[d] : d \in DOMAIN DEPTH_CONFIGS}
    /\ passive_pc = "idle"
    /\ subdomain_task = Coroutine("unstarted", TRUE, <<>>)
    /\ whois_task = Coroutine("unstarted", TRUE, NoWhois)
    /\ passive_results = <<>>

\* passive.py 54-61: both coroutines are created and handed to gather.
PassiveDiscovery_Gather ==
    /\ passive_pc = "idle"
    /\ passive_pc' = "gather"
    /\ subdomain_task' = [subdomain_task EXCEPT !.state = "running"]
    /\ whois_task' = [whois_task EXCEPT !.state = "running"]
    /\ UNCHANGED <<passive_config, passive_results>>
    /\ UNCHANGED <<pipelineVars, crawlerVars, gatewayVars, authVars, cdnVars,
                   deepVars, configVars, portVars, activeVars>>

\* _enumerate_subdomains returns (passive.py 103-133).
EnumerateSubdomains_Return(subfinder, kept) ==
    /\ subdomain_task.state = "running"
    /\ subdomain_task' =
        Coroutine("done", subfinder.ok, enumerate_subdomains(subfinder, kept))
    /\ UNCHANGED <<passive_config, passive_pc, whois_task, passive_results>>
    /\ UNCHANGED <<pipelineVars, crawlerVars, gatewayVars, authVars, cdnVars,
                   deepVars, configVars, portVars, activeVars>>

\* _fetch_whois returns (passive.py 179-213): None when the lookup failed.
FetchWhois_Return(lookup_ok) ==
    /\ whois_task.state = "running"
    /\ whois_task' =
        Coroutine("done", lookup_ok, IF lookup_ok THEN WhoisRecord ELSE NoWhois)
    /\ UNCHANGED <<passive_config, passive_pc, subdomain_task, passive_results>>
    /\ UNCHANGED <<pipelineVars, crawlerVars, gatewayVars, authVars, cdnVars,
                   deepVars, configVars, portVars, activeVars>>

\* Mutant: the failure of a branch ends the stage with that failure.
PassiveDiscovery_Join_FailFast ==
    /\ passive_pc = "gather"
    /\ subdomain_task.state = "done"
    /\ whois_task.state = "done"
    /\ IF subdomain_task.tool_ok /\ whois_task.tool_ok
       THEN /\ passive_results' =
                [subdomains |-> subdomain_task.value,
                 total_subdomains |-> Len(subdomain_task.value),
                 whois_data |-> whois_task.value]
            /\ passive_pc' = "dns"
       ELSE /\ passive_pc' = "raised"
            /\ UNCHANGED passive_results
    /\ UNCHANGED <<passive_config, subdomain_task, whois_task>>
    /\ UNCHANGED <<pipelineVars, crawlerVars, gatewayVars, authVars, cdnVars,
                   deepVars, configVars, portVars, activeVars>>

\* gather returns when both coroutines have (passive.py 58-77); neither
\* returned value is an exception, so both are stored.
PassiveDiscovery_Join ==
    /\ passive_pc = "gather"
    /\ subdomain_task.state = "done"
    /\ whois_task.state = "done"
    /\ passive_results' =
        [subdomains |-> subdomain_task.value,
         total_subdomains |-> Len(subdomain_task.value),
         whois_data |-> whois_task.value]
    /\ passive_pc' = "dns"
    /\ UNCHANGED <<passive_config, subdomain_task, whois_task>>
    /\ UNCHANGED <<pipelineVars, crawlerVars, gatewayVars, authVars, cdnVars,
                   deepVars, configVars, portVars, activeVars>>

\* The DNS collection and the return (passive.py 79-101).
PassiveDiscovery_Return(dns) ==
    /\ passive_pc = "dns"
    /\ passive_results' =
        [whois_data |-> passive_results.whois_data]
            @@ PassiveRun(passive_results.subdomains, dns)
    /\ passive_pc' = "returned"
    /\ UNCHANGED <<passive_config, subdomain_task, whois_task>>
    /\ UNCHANGED <<pipelineVars, crawlerVars, gatewayVars, authVars, cdnVars,
                   deepVars, configVars, portVars, activeVars>>

PassiveNext ==
    \/ PassiveDiscovery_Gather
    \/ \E subfinder \in SubfinderOutcomes :
          \E kept \in LimitChoices(subfinder.out, passive_config.max_subdomains) :
            EnumerateSubdomains_Return(subfinder, kept)
    \/ \E lookup_ok \in BOOLEAN : FetchWhois_Return(lookup_ok)
    \/ PassiveDiscovery_Join
    \/ \E dns \in DnsOutcomes : PassiveDiscovery_Return(dns)

PassiveSpec == PassiveInit /\ [][PassiveNext]_vars

(***************************************************************************)
(* PortDiscovery._get_port_config (stages/port_discovery.py 134-174): the  *)
(* arguments of run_naabu for a depth and a number of hosts to scan.       *)
(***************************************************************************)
\* The host count above which a deep scan takes the top ports.
HostThreshold == 50

\* ports = "-": every port.
FullRange == "-"

PortConfig(ports, top_ports, rate) ==
    [ports |-> ports, top_ports |-> top_ports, rate |-> rate]

\* Mutant: the top ports are taken from the threshold on.
get_port_config_FromThreshold(depth, hosts) ==
    IF depth = "shallow" THEN PortConfig(NoPorts, 100, 1000)
    ELSE IF depth = "normal" THEN PortConfig(NoPorts, 1000, 1500)
    ELSE IF depth = "deep"
    THEN IF hosts >= HostThreshold
         THEN PortConfig(NoPorts, 10000, 3000)
         ELSE PortConfig(FullRange, NoTopPorts, 3000)
    ELSE PortConfig(NoPorts, 1000, 1500)

get_port_config(depth, hosts) ==
    IF depth = "shallow" THEN PortConfig(NoPorts, 100, 1000)
    ELSE IF depth = "normal" THEN PortConfig(NoPorts, 1000, 1500)
    ELSE IF depth = "deep"
    THEN IF hosts > HostThreshold
         THEN PortConfig(NoPorts, 10000, 3000)
         ELSE PortConfig(FullRange, NoTopPorts, 3000)
    ELSE PortConfig(NoPorts, 1000, 1500)

\* The stage is built with a configuration of any depth; run calls the
\* function with the number of addresses to scan, one at least
\* (port_discovery.py 61-81).
PortConfigInit ==
    /\ EngineNotRun
    /\ CrawlerNotBuilt
    /\ GatewayNotUsed
    /\ AuthNotRun
    /\ CdnNotRun
    /\ DeepNotRun
    /\ ConfigNotRun
    /\ PassiveNotRun
    /\ ActiveNotRun
    /\ port_depth \in DepthChoices
    /\ host_count \in 1..MaxHosts
    /\ port_config = [ports |-> NoPorts, top_ports |-> NoTopPorts, rate |-> 0]

PortDiscovery_GetPortConfig ==
    /\ port_config.rate = 0
    /\ port_config' = get_port_config(port_depth, host_count)
    /\ UNCHANGED <<port_depth, host_count>>
    /\ UNCHANGED <<pipelineVars, crawlerVars, gatewayVars, authVars, cdnVars,
                   deepVars, configVars, passiveVars, activeVars>>

PortConfigNext == PortDiscovery_GetPortConfig

PortConfigSpec == PortConfigInit /\ [][PortConfigNext]_vars

(***************************************************************************)
(* stages/active.py: ActiveDiscovery.run called on its own, from the list  *)
(* of names probed and the text httpx printed to the ActiveResults.        *)
(***************************************************************************)
\* A JSON line of httpx without the key "url".
NoUrl == [scheme |-> "", host |-> <<>>]
\* A JSON line of httpx without the key "status_code".
NoStatusCode == 0

\* The lists of names the stage is called with: the names of the world,
\* each at most once, sorted as passive discovery returns them.
ProbeLists ==
    {SelectSeq(NameOrder, LAMBDA n : n \in T) : T \in SUBSET SubNames}

\* The lines httpx can print when the given names are probed: a line that
\* is not JSON, or a JSON object for a URL of a probed name, with its status
\* code or without.
HttpxLines(names) ==
    {[json |-> FALSE, url |-> NoUrl, status_code |-> NoStatusCode]}
        \cup [json : {TRUE},
              url : [scheme : {"http", "https"}, host : Range(names)],
              status_code : {NoStatusCode, 200}]

\* _parse_httpx_result yields a Service (active.py 118-160).
ParsesToService(line) ==
    line.json /\ line.url # NoUrl /\ line.status_code # NoStatusCode

\* _probe_http_services: the Service objects of the lines that parse, in
\* output order; the other lines are skipped.
probe_http_services(lines) ==
    LET kept == SelectSeq(lines, ParsesToService)
    IN [k \in 1..Len(kept) |->
            [url |-> kept[k].url, technologies |-> TechOf(kept[k].url.host)]]

\* httpx prints one JSON object per URL that answered.
OneLinePerUrl(lines) ==
    \A i, j \in 1..Len(lines) :
        (i # j /\ lines[i].json /\ lines[j].json) => lines[i].url # lines[j].url

\* The stage is called with any list of names; httpx fails, or prints up to
\* MaxHttpxLines lines.
ActiveInit ==
    /\ EngineNotRun
    /\ CrawlerNotBuilt
    /\ GatewayNotUsed
    /\ AuthNotRun
    /\ CdnNotRun
    /\ DeepNotRun
    /\ ConfigNotRun
    /\ PassiveNotRun
    /\ PortConfigNotRun
    /\ active_subdomains \in ProbeLists
    /\ \E ok \in BOOLEAN :
          \E lines \in SeqsUpTo(HttpxLines(active_subdomains), MaxHttpxLines) :
            /\ OneLinePerUrl(lines)
            /\ httpx_output = [ok |-> ok, lines |-> lines]
    /\ probe_results = <<>>

\* ActiveDiscovery.run, from the call to the ActiveResults it returns.
ActiveDiscovery_Run ==
    /\ probe_results = <<>>
    /\ probe_results' =
            ActiveRun(active_subdomains,
                      [ok |-> httpx_output.ok,
                       out |-> probe_http_services(httpx_output.lines)])
    /\ UNCHANGED <<active_subdomains, httpx_output>>
    /\ UNCHANGED <<pipelineVars, crawlerVars, gatewayVars, authVars, cdnVars,
                   deepVars, configVars, passiveVars, portVars>>

ActiveNext == ActiveDiscovery_Run

ActiveSpec == ActiveInit /\ [][ActiveNext]_vars

(***************************************************************************)
(* Vocabulary of the properties.                                           *)
(***************************************************************************)
HardStages == {"passive", "active", "deep"}
SoftStages == {"port", "enrichment", "vulnerability"}
StageOrder == <<"passive", "port", "active", "deep", "enrichment", "vulnerability">>

StartEvent ==
    [passive |-> "Starting passive reconnaissance",
     port |-> "Starting port scanning",
     active |-> "Starting active probing",
     deep |-> "Starting web crawling",
     enrichment |-> "Starting infrastructure enrichment",
     vulnerability |-> "Starting vulnerability scanning"]

CompletedEvent ==
    [passive |-> "Passive discovery completed",
     port |-> "Port discovery completed",
     active |-> "Active discovery completed",
     deep |-> "Deep discovery completed",
     enrichment |-> "Enrichment completed",
     vulnerability |-> "Vulnerability scanning completed"]

FailedEvent ==
    [passive |-> "Passive discovery failed",
     port |-> "Port discovery failed",
     active |-> "Active discovery failed",
     deep |-> "Deep discovery failed",
     enrichment |-> "Enrichment failed",
     vulnerability |-> "Vulnerability scanning failed"]

\* The tag the events of a stage carry in the code.
EventTag ==
    [passive |-> PASSIVE_DISCOVERY, port |-> PASSIVE_DISCOVERY,
     active |-> ACTIVE_DISCOVERY, deep |-> DEEP_DISCOVERY,
     enrichment |-> ENRICHMENT, vulnerability |-> COMPLETED]

EventIdx(ev) ==
    {i \in 1..Len(discovery_timeline) : discovery_timeline[i].event = ev}

HasEvent(ev) == EventIdx(ev) # {}

Entered(st) == HasEvent(StartEvent[st])

StagePos(st) == CHOOSE k \in 1..Len(StageOrder) : StageOrder[k] = st

LaterStages(st) == {l \in Range(StageOrder) : StagePos(l) > StagePos(st)}

Ended == pc \in {"returned", "raised"}

(***************************************************************************)
(* C1: if the Passive, Active or Deep stage raises an internal error, the  *)
(* run ends with status Failed and the error message in the metadata, the  *)
(* stage's failure event is the last event of the timeline, and no later   *)
(* stage is entered.                                                       *)
(***************************************************************************)
C1_HardFailIsFatal ==
    \A st \in HardStages :
        st \in raised_in =>
            /\ pc = "raised"
            /\ metadata.status = FAILED
            /\ metadata.error \in ErrorMessages
            /\ Last(discovery_timeline).event = FailedEvent[st]
            /\ Last(discovery_timeline).stage = EventTag[st]
            /\ \A l \in LaterStages(st) : ~Entered(l)

C1_Witness ==
    /\ pc = "raised"
    /\ "active" \in raised_in
    /\ metadata.status = FAILED
    /\ Entered("port")

(***************************************************************************)
(* C2: if the Port, Enrichment or Vulnerability stage raises an internal   *)
(* error, its failure event is in the timeline, the stage that follows it  *)
(* in the configured pipeline is still entered (all of them by the end of  *)
(* a run without a hard failure), and a run in which no hard-fail stage    *)
(* fails ends with status Completed and no error on the metadata.          *)
(***************************************************************************)
VulnConfigured == ~config.skip_vuln_scan

C2_SoftFailContinues ==
    /\ \A st \in SoftStages :
        st \in raised_in =>
            /\ HasEvent(FailedEvent[st])
            /\ \A i \in EventIdx(FailedEvent[st]) :
                    discovery_timeline[i].stage = EventTag[st]
    /\ "port" \in raised_in => pc = "call_active" \/ Entered("active")
    /\ "enrichment" \in raised_in =>
            \/ pc \in {"call_vuln", "skip_vuln"}
            \/ Entered("vulnerability")
            \/ ~VulnConfigured
    /\ "vulnerability" \in raised_in => pc \in {"call_finalize", "returned"}
    /\ (raised_in \cap SoftStages # {} /\ raised_in \cap HardStages = {}) =>
            /\ pc # "raised"
            /\ pc = "returned" =>
                /\ metadata.status = COMPLETED
                /\ metadata.error = NoError
                /\ \A st \in Range(StageOrder) :
                        Entered(st) \/ (st = "vulnerability" /\ ~VulnConfigured)

C2_Witness ==
    /\ pc = "returned"
    /\ {"port", "vulnerability"} \subseteq raised_in
    /\ metadata.status = COMPLETED

(***************************************************************************)
(* C3 as stated: a failure of the subdomain-enumeration or DNS tool in     *)
(* Passive, of the HTTP probe in Active or of the crawler tool in Deep     *)
(* ends the run with status Failed.                                        *)
(***************************************************************************)
HardStageTools == {"subfinder", "dnsx", "httpx", "katana"}

PassiveYieldedNone == domains.present /\ domains.subdomains = <<>>

C4_GatingNeverFails ==
    PassiveYieldedNone =>
        /\ pc \notin {"in_port", "in_active", "in_deep", "in_vuln", "raised"}
        /\ \A st \in {"port", "active", "deep"} :
                ~HasEvent(CompletedEvent[st]) /\ ~HasEvent(FailedEvent[st])
        /\ tool_failed \cap {"naabu", "httpx", "katana"} = {}
        /\ services = <<>>
        /\ endpoints = <<>>
        /\ pc = "returned" => metadata.status = COMPLETED /\ metadata.error = NoError

C4_Witness ==
    /\ PassiveYieldedNone
    /\ pc = "returned"
    /\ Entered("deep")
    /\ metadata.status = COMPLETED

(***************************************************************************)
(* C5 as stated: a stage that skips itself because its predecessor's       *)
(* output is empty has appended a skip event after its start event, so     *)
(* when the stage has returned without executing, its start event is not   *)
(* the last event of the timeline.                                         *)
(***************************************************************************)
C5_SkipEventRecorded ==
    /\ (pc = "call_active" /\ NoSubdomains) =>
            Last(discovery_timeline).event # StartEvent["port"]
    /\ (pc = "call_deep" /\ NoSubdomains) =>
            Last(discovery_timeline).event # StartEvent["active"]
    /\ (pc = "call_enrichment" /\ NoServices) =>
            Last(discovery_timeline).event # StartEvent["deep"]

(***************************************************************************)
(* C6: the report status never moves backwards in the order Initialized,   *)
(* PassiveDiscovery, ActiveDiscovery, DeepDiscovery, Enrichment,           *)
(* Completed; Failed is terminal: once the status is Failed no step        *)
(* changes it, appends an event or moves the run.                          *)
(***************************************************************************)
StatusRank(st) ==
    CASE st = INITIALIZED -> 1
      [] st = PASSIVE_DISCOVERY -> 2
      [] st = ACTIVE_DISCOVERY -> 3
      [] st = DEEP_DISCOVERY -> 4
      [] st = ENRICHMENT -> 5
      [] st = COMPLETED -> 6
      [] OTHER -> 0

C6_StatusNeverMovesBack ==
    [][metadata.status # "None" =>
        IF metadata.status = FAILED
        THEN /\ metadata'.status = FAILED
             /\ discovery_timeline' = discovery_timeline
             /\ pc' = pc
        ELSE \/ metadata'.status = FAILED
             \/ /\ StatusRank(metadata'.status) >= StatusRank(metadata.status)
                /\ StatusRank(metadata'.status) > 0]_vars

C6_Witness ==
    /\ metadata.status = FAILED
    /\ Entered("deep")
    /\ HasEvent(FailedEvent["deep"])

(***************************************************************************)
(* C7 as stated: whenever the status is Completed the run has been         *)
(* finalized: all stages have returned, the end time and the duration are  *)
(* recorded, and the Vulnerability stage is not executing.                 *)
(***************************************************************************)
C7_CompletedOnlyAfterFinalize ==
    metadata.status = COMPLETED =>
        /\ pc = "returned"
        /\ metadata.end_time # NoTime
        /\ metadata.duration_seconds # NoTime

(***************************************************************************)
(* C7 amended: the status is Completed from the entry of the Vulnerability *)
(* stage on, hence also while that stage executes and before finalization; *)
(* it is Completed only when every stage before Vulnerability has          *)
(* returned.  The end time and the duration are recorded by finalization   *)
(* only: they are set exactly when the run has returned normally, and then *)
(* the status is Completed and the duration is end minus start.            *)
(***************************************************************************)
C7_CompletedFromVulnStage ==
    /\ metadata.status = COMPLETED => pc \in {"in_vuln", "call_finalize", "returned"}
    /\ pc = "in_vuln" => metadata.status = COMPLETED
    /\ (metadata.end_time # NoTime \/ metadata.duration_seconds # NoTime) <=>
            pc = "returned"
    /\ pc = "returned" =>
            /\ metadata.status = COMPLETED
            /\ metadata.end_time >= metadata.start_time
            /\ metadata.duration_seconds = metadata.end_time - metadata.start_time

C7_Witness ==
    /\ pc = "in_vuln"
    /\ metadata.status = COMPLETED
    /\ metadata.end_time = NoTime

(***************************************************************************)
(* C8 as stated: the Port and the Vulnerability stage have status values   *)
(* of their own: the status is PortDiscovery while the Port stage executes *)
(* and VulnerabilityScan while the Vulnerability stage executes.           *)
(***************************************************************************)
C8_OneStatusPerStage ==
    /\ pc = "in_port" => metadata.status = "port_discovery"
    /\ pc = "in_vuln" => metadata.status = "vulnerability_scan"

(***************************************************************************)
(* C8 amended: the status takes the values Initialized, PassiveDiscovery,  *)
(* ActiveDiscovery, DeepDiscovery, Enrichment, Completed in this order and *)
(* there is no value for the Port or the Vulnerability stage: while the    *)
(* Port stage executes the status is still PassiveDiscovery and the Port   *)
(* stage's events carry the PassiveDiscovery tag; while the Vulnerability  *)
(* stage executes the status is already Completed and its events carry the *)
(* Completed tag.                                                          *)
(***************************************************************************)
StageEvents(st) == {StartEvent[st], CompletedEvent[st], FailedEvent[st]}

C8_StatusSharedByStages ==
    /\ metadata.status \in DiscoveryStage \cup {"None"}
    /\ pc = "call_passive" => metadata.status = INITIALIZED
    /\ pc \in {"in_passive", "call_port", "in_port", "call_active"} =>
            metadata.status = PASSIVE_DISCOVERY
    /\ pc \in {"in_active", "call_deep"} => metadata.status = ACTIVE_DISCOVERY
    /\ pc \in {"in_deep", "call_enrichment"} => metadata.status = DEEP_DISCOVERY
    /\ pc \in {"in_enrichment", "call_vuln", "skip_vuln"} =>
            metadata.status = ENRICHMENT
    /\ pc = "in_vuln" => metadata.status = COMPLETED
    /\ pc = "call_finalize" =>
            metadata.status = (IF VulnConfigured THEN COMPLETED ELSE ENRICHMENT)
    /\ pc = "returned" => metadata.status = COMPLETED
    /\ \A st \in Range(StageOrder) :
        \A i \in 1..Len(discovery_timeline) :
            discovery_timeline[i].event \in StageEvents(st) =>
                discovery_timeline[i].stage = EventTag[st]

C8_Witness ==
    /\ pc = "in_vuln"
    /\ HasEvent(CompletedEvent["port"])
    /\ \A i \in EventIdx(CompletedEvent["port"]) :
            discovery_timeline[i].stage = PASSIVE_DISCOVERY
    /\ Last(discovery_timeline).stage = COMPLETED

(***************************************************************************)
(* C9: the stage start events appear in the order Passive, Port, Active,   *)
(* Deep, Enrichment, Vulnerability, each at most once; a stage that        *)
(* executes has, after its start event and before the next start event or  *)
(* the end of the run, exactly one completed-or-failed event; a stage that *)
(* is skipped has none.                                                    *)
(***************************************************************************)
InStage ==
    [passive |-> "in_passive", port |-> "in_port", active |-> "in_active",
     deep |-> "in_deep", enrichment |-> "in_enrichment",
     vulnerability |-> "in_vuln"]

\* The gate of the stage was open when the stage was entered.
Executed(st) ==
    CASE st \in {"port", "active"} -> domains.present /\ domains.subdomains # <<>>
      [] st \in {"deep", "vulnerability"} -> services # <<>>
      [] OTHER -> TRUE

Closing(st) == EventIdx(CompletedEvent[st]) \cup EventIdx(FailedEvent[st])

C9_StageEventsOrdered ==
    \A st \in Range(StageOrder) :
        /\ Cardinality(EventIdx(StartEvent[st])) <= 1
        /\ \A i \in Closing(st) : \E k \in EventIdx(StartEvent[st]) : k < i
        /\ \A l \in LaterStages(st) :
            Entered(l) =>
                /\ Entered(st)
                /\ \A k \in EventIdx(StartEvent[st]), m \in EventIdx(StartEvent[l]) : k < m
                /\ \A i \in Closing(st), m \in EventIdx(StartEvent[l]) : i < m
        /\ (Entered(st) /\ pc = InStage[st]) => Closing(st) = {}
        /\ (Entered(st) /\ pc # InStage[st]) =>
                Cardinality(Closing(st)) = (IF Executed(st) THEN 1 ELSE 0)

C9_Witness ==
    /\ pc = "returned"
    /\ \A st \in Range(StageOrder) : Entered(st) /\ Cardinality(Closing(st)) = 1
    /\ HasEvent(FailedEvent["port"])

(***************************************************************************)
(* C10: the timeline is append-only with non-decreasing timestamps: every  *)
(* step leaves the existing events in place (the old timeline is a prefix  *)
(* of the new one) and every appended event's timestamp is at least that   *)
(* of the event before it.                                                 *)
(***************************************************************************)
C10_TimelineAppendOnly ==
    [][/\ IsPrefix(discovery_timeline, discovery_timeline')
       /\ \A i \in (Len(discovery_timeline) + 1)..Len(discovery_timeline') :
            i > 1 => discovery_timeline'[i].timestamp >=
                        discovery_timeline'[i - 1].timestamp]_vars

C10_Witness ==
    /\ pc = "returned"
    /\ Len(discovery_timeline) >= 10
    /\ discovery_timeline[1].timestamp < Last(discovery_timeline).timestamp

(***************************************************************************)
(* C11 as stated: a failed run still emits the partial report: when a      *)
(* hard-fail stage has failed and the command has exited, the output file  *)
(* has been written and holds the report with status Failed and the error  *)
(* field set.                                                              *)
(***************************************************************************)
C11_FailedRunEmitsReport ==
    (cli # "running" /\ metadata.status = FAILED) =>
        /\ output.written
        /\ output.metadata.status = FAILED
        /\ output.metadata.error # NoError

(***************************************************************************)
(* C12 as stated: discover fails with InvalidTarget whenever the host of   *)
(* the target has no domain or no recognised suffix, so every report that  *)
(* exists was created for a target with both parts; and when discover      *)
(* fails this way no report exists, no stage is entered and no timeline    *)
(* event is appended.                                                      *)
(***************************************************************************)
C12_InvalidTargetRejected ==
    /\ metadata.status # "None" =>
            /\ metadata.target[1] # ""
            /\ metadata.target[3] # ""
    /\ (pc = "raised" /\ metadata.status = "None") =>
            /\ discovery_timeline = <<>>
            /\ raised_in = {}

(***************************************************************************)
(* C13: immediately after update_statistics has run, total_subdomains is   *)
(* the number of subdomains, live_services the number of services,         *)
(* endpoints_discovered the number of endpoints, and every severity bucket *)
(* is the number of findings of that severity, so that the five buckets    *)
(* sum to the number of findings.                                          *)
(***************************************************************************)
CountsMatch(stats) ==
    /\ stats.total_subdomains = Len(domains.subdomains)
    /\ stats.live_services = Len(services)
    /\ stats.endpoints_discovered = Len(endpoints)

HistogramMatches(stats) ==
    /\ DOMAIN stats.findings_by_severity = Severities
    /\ \A sv \in Severities :
        stats.findings_by_severity[sv] =
            Cardinality({i \in 1..Len(findings) : findings[i].severity = sv})
    /\ stats.findings_by_severity["critical"] + stats.findings_by_severity["high"]
         + stats.findings_by_severity["medium"] + stats.findings_by_severity["low"]
         + stats.findings_by_severity["info"] = Len(findings)

\* _finalize is the caller of update_statistics and changes no collection
\* after it: the report of a returned run is the report right after the call.
C13_StatisticsMatchCollections ==
    pc = "returned" => CountsMatch(statistics) /\ HistogramMatches(statistics)

C13_Witness ==
    /\ pc = "returned"
    /\ Len(domains.subdomains) >= 1
    /\ Len(services) >= 1
    /\ Len(endpoints) >= 1
    /\ Len(findings) >= 1
    /\ statistics.live_services >= 1
    /\ statistics.findings_by_severity["info"] = 1

(***************************************************************************)
(* C14 as stated: the statistics are recomputed after every stage: at      *)
(* every stage boundary (the stage's result is merged, the next stage has  *)
(* not started) and at the end of the run every statistics count equals    *)
(* the size of its backing collection.                                     *)
(***************************************************************************)
StageBoundary ==
    pc \in {"call_port", "call_active", "call_deep", "call_enrichment",
            "call_vuln", "skip_vuln", "call_finalize", "returned"}

C14_StatisticsFreshAtBoundaries ==
    StageBoundary => CountsMatch(statistics) /\ HistogramMatches(statistics)

(***************************************************************************)
(* C15 as stated: after the statistics are updated, technologies_detected  *)
(* is the number of distinct technologies over all services: a technology  *)
(* detected on two services is counted once.                               *)
(***************************************************************************)
DistinctTechnologies ==
    UNION {Range(services[k].technologies) : k \in 1..Len(services)}

C15_UniqueTechnologyCount ==
    pc = "returned" =>
        statistics.technologies_detected = Cardinality(DistinctTechnologies)

(***************************************************************************)
(* C16 as stated: for any seed list and link graph the number of pages the *)
(* crawler visits in one crawl never exceeds max_urls.                     *)
(***************************************************************************)
C16_VisitsWithinMaxUrls == Cardinality(visited_urls) <= max_urls

(***************************************************************************)
(* C17 as stated: max_urls is a global cap on the discovered set: in every *)
(* reachable crawler state the discovered set holds at most max_urls URLs. *)
(***************************************************************************)
C17_DiscoveredWithinMaxUrls == Cardinality(discovered_urls) <= max_urls

(***************************************************************************)
(* C18: the crawler never renders a page at a depth greater than           *)
(* max_depth, where a seed is at depth 0 and a link taken from a page at   *)
(* depth d is at depth d + 1; with max_depth = 0 only seeds are rendered.  *)
(***************************************************************************)
C18_DepthBounded ==
    /\ \A r \in rendered : r.depth >= 0 /\ r.depth <= max_depth
    /\ \A i \in 1..Len(stack) :
        /\ stack[i].depth = i - 1
        /\ [url |-> stack[i].url, depth |-> i - 1,
            seed |-> start_urls[seed_idx - 1]] \in rendered
    /\ \A r \in rendered : r.depth = 0 <=> r.url = r.seed
    /\ max_depth = 0 => \A r \in rendered : r.url = r.seed

\* A page at depth 1 holds a same-domain link that was never rendered.
C18_Witness ==
    /\ cpc = "done"
    /\ max_depth = 1
    /\ max_urls = ScenarioMaxUrls
    /\ \E r \in rendered :
        /\ r.depth = 1
        /\ \E l \in extract_urls(r.url) :
            is_same_domain(r.url, l) /\ l \notin visited_urls

(***************************************************************************)
(* C19: the crawler only follows same-origin links: every page rendered    *)
(* has the netloc of the seed it was reached from, and two URLs that       *)
(* differ only in the scheme are treated as same-origin.                   *)
(***************************************************************************)
C19_SameOriginOnly ==
    /\ \A r \in rendered : r.url.netloc = r.seed.netloc
    /\ \A u \in Pages, v \in Pages :
        [u EXCEPT !.scheme = v.scheme] = v => FollowLink(u, v)

\* The https page was rendered from the http seed; the page of the other
\* site, linked from the rendered pages, was not.
C19_Witness ==
    /\ cpc = "done"
    /\ start_urls = <<PageA>>
    /\ [url |-> PageAs, depth |-> 1, seed |-> PageA] \in rendered
    /\ PageC \in discovered_urls
    /\ PageC \notin visited_urls

(***************************************************************************)
(* C20 as stated: with seeds [A], max_depth = 1, max_urls = 100, page A    *)
(* linking to B (same origin) and C (other origin) and B linking nowhere,  *)
(* once A and B have been rendered and the crawl has ended the discovered  *)
(* set is exactly {A, B}.                                                  *)
(***************************************************************************)
Scenario ==
    /\ start_urls = <<PageA>>
    /\ max_depth = 1
    /\ max_urls = ScenarioMaxUrls
    /\ graph[PageA] = {PageB, PageC}
    /\ graph[PageB] = {}

C20_ScenarioDiscoversAB ==
    (Scenario /\ cpc = "done" /\ visited_urls = {PageA, PageB}) =>
        discovered_urls = {PageA, PageB}

(***************************************************************************)
(* C21 as stated: within one crawl no two visited URLs, the seeds          *)
(* included, normalize to the same value: a seed given with a fragment and *)
(* a link to the same URL without the fragment cause a single visit.       *)
(***************************************************************************)
C21_OneVisitPerNormalizedUrl ==
    \A u \in visited_urls, v \in visited_urls :
        normalize_url(u) = normalize_url(v) => u = v

(***************************************************************************)
(* C22: in every reachable crawler state the discovered set holds no two   *)
(* distinct URLs that normalize to the same value: every member is a       *)
(* fixed point of normalization, whatever the page it was collected from.  *)
(***************************************************************************)
C22_DiscoveredNormalized ==
    /\ \A u \in discovered_urls : normalize_url(u) = u
    /\ \A u \in discovered_urls, v \in discovered_urls :
        normalize_url(u) = normalize_url(v) => u = v

\* A rendered page held a link with a fragment: the discovered set holds
\* the link without it.
C22_Witness ==
    \E f \in Range(stack) :
        \E l \in RawLinks(f.url) :
            /\ l.fragment # ""
            /\ l \notin discovered_urls
            /\ normalize_url(l) \in discovered_urls

(***************************************************************************)
(* C23 as stated: normalization is idempotent and strips exactly the       *)
(* fragment: for every URL u a page yields, normalize(normalize(u)) =      *)
(* normalize(u), and normalize(u) has the scheme, host, path and query     *)
(* string of u and no fragment.  The path of a URL is what stands between  *)
(* the host and the "?": urlparse splits it into path and params.          *)
(***************************************************************************)
StripsExactlyFragment(u, n) ==
    /\ n.scheme = u.scheme
    /\ n.netloc = u.netloc
    /\ n.path = u.path
    /\ n.params = u.params
    /\ n.query = u.query
    /\ n.fragment = ""

C23_NormalizeStripsFragmentOnly ==
    \A f \in Range(stack) :
        \A u \in RawLinks(f.url) :
            /\ normalize_url(normalize_url(u)) = normalize_url(u)
            /\ StripsExactlyFragment(u, normalize_url(u))
            /\ URLExtractor_normalize_url(URLExtractor_normalize_url(u)) =
                   URLExtractor_normalize_url(u)
            /\ StripsExactlyFragment(u, URLExtractor_normalize_url(u))

(***************************************************************************)
(* C24: a page whose navigation times out or fails does not end the crawl  *)
(* and costs its own branch only: the failed page stays in the visited     *)
(* set, and when the crawl has ended every start URL and every same-domain *)
(* link of every page that did load has been visited, unless the depth or  *)
(* the URL limit stood in the way.                                         *)
(***************************************************************************)
C24_FailedPageSkipsOwnBranch ==
    /\ failed_pages \subseteq visited_urls
    /\ cpc = "done" =>
        /\ \A i \in 1..Len(start_urls) :
            start_urls[i] \in visited_urls \/ LimitReached
        /\ \A r \in rendered :
            r.url \notin failed_pages =>
                \A l \in extract_urls(r.url) :
                    is_same_domain(r.url, l) =>
                        \/ l \in visited_urls
                        \/ TooDeep(r.depth + 1)
                        \/ LimitReached

\* The second start URL is being crawled after a link of the first one
\* failed to load and its sibling was rendered.
C24_Witness ==
    /\ start_urls = <<PageA, PageC>>
    /\ Len(stack) = 1
    /\ stack[1].url = PageC
    /\ failed_pages = {PageB}
    /\ PageAs \in visited_urls

(***************************************************************************)
(* C25 as stated: the visited and the discovered set are scoped to one     *)
(* crawl invocation: at the start of every crawl() on a crawler both sets  *)
(* are empty, so the URLs it returns hold none found by an earlier crawl.  *)
(***************************************************************************)
C25_SetsEmptyAtCrawlStart ==
    cpc = "idle" => visited_urls = {} /\ discovered_urls = {}

(***************************************************************************)
(* C26 as stated: every call of a gateway operation (subfinder, httpx,     *)
(* dnsx, nuclei, katana, naabu) that exceeds its timeout has its process   *)
(* forcibly terminated before the call returns its failure: no process     *)
(* outlives a timed-out call.                                              *)
(***************************************************************************)
TimedOut(op) == call[op] \in {"TimeoutError", "ToolExecutionError"}

C26_TimedOutProcessKilled ==
    \A op \in GatewayOps : TimedOut(op) => process[op] = "killed"

(***************************************************************************)
(* C27 as stated: a path segment is classified by the first pattern that   *)
(* matches in the precedence UUID, numeric id, hex hash (32 characters or  *)
(* more), date (YYYY-MM-DD), email-like, generic slug: a date segment is   *)
(* recorded as date, a hex segment as hash, an email as email, none of     *)
(* them as slug.                                                           *)
(***************************************************************************)
StatedPrecedence == <<"uuid", "id", "hash", "date", "email", "slug">>

C27_SegmentsClassifiedByPrecedence ==
    \A key \in DOMAIN path_params :
        \A value \in Range(path_params[key]) :
            key[2] = FirstMatch(StatedPrecedence, value)

(***************************************************************************)
(* C28 as stated: the CDN detection attributes each service to at most one *)
(* provider, the first whose patterns match: no service URL stands in the  *)
(* sets of two providers.                                                  *)
(***************************************************************************)
C28_OneCdnPerService ==
    \A c \in DOMAIN cdn_mappings, d \in DOMAIN cdn_mappings :
        c # d => cdn_mappings[c] \cap cdn_mappings[d] = {}

(***************************************************************************)
(* C29 as stated: the endpoints one run of the Deep stage produces, in the *)
(* tool-only or in the hybrid mode, are deduplicated by normalized URL: no *)
(* two of them have URLs that normalize to the same value.                 *)
(***************************************************************************)
C29_EndpointsUniqueByNormalizedUrl ==
    stage_results # <<>> =>
        \A i \in 1..Len(stage_results.endpoints),
           j \in 1..Len(stage_results.endpoints) :
            URLExtractor_normalize_url(stage_results.endpoints[i].url) =
            URLExtractor_normalize_url(stage_results.endpoints[j].url) => i = j

(***************************************************************************)
(* C30 as stated: stage modules never mutate the report: the subdomain     *)
(* records passed to the Port stage are the same when the stage module     *)
(* returns as when it was called (the orchestrator of the Port stage       *)
(* merges nothing into them).                                              *)
(***************************************************************************)
C30_PortStageLeavesInputs ==
    [][pc = "in_port" => domains' = domains]_vars

\* C31: get_config(preset, overrides) returns a configuration that has the
\* override value in every overridden field and the preset's value in every
\* other field, leaves the preset instances as the table defines them, and
\* takes the normal preset for an unknown name; shallow gives timeout 300
\* and max_subdomains 20, deep gives timeout 900 with javascript execution
\* enabled; an assignment to a field of a constructed configuration changes
\* nothing.
C31_GetConfigContract ==
    /\ presets = DEPTH_CONFIGS
    /\ cfg_ref # "none" =>
        LET preset == DEPTH_CONFIGS[IF cfg_depth \in {"shallow", "deep"}
                                    THEN cfg_depth ELSE "normal"]
        IN /\ DOMAIN cfg_result = DOMAIN preset
           /\ \A f \in DOMAIN preset :
                cfg_result[f] = IF f \in DOMAIN cfg_overrides
                                THEN cfg_overrides[f] ELSE preset[f]
           /\ (cfg_depth = "shallow" /\ DOMAIN cfg_overrides = {}) =>
                cfg_result.timeout = 300 /\ cfg_result.max_subdomains = 20
           /\ (cfg_depth = "deep" /\ DOMAIN cfg_overrides = {}) =>
                cfg_result.timeout = 900 /\ cfg_result.javascript_execution

\* An unknown preset name with an override of one field and an unknown
\* keyword, after an assignment to the returned configuration was tried.
C31_Witness ==
    /\ cfg_ref = "new"
    /\ cfg_depth = "extreme"
    /\ DOMAIN cfg_overrides = {"timeout", "color"}
    /\ cfg_result.timeout = 1200
    /\ cfg_error = "frozen_instance"

\* C32: in the Passive stage the subdomain enumeration and the WHOIS lookup
\* are launched together; the failure of one neither stops the other nor
\* loses what the other returned, the failed branch contributes nothing,
\* and the stage goes on to return its results.
C32_PassiveBranchesIsolated ==
    /\ (subdomain_task.state = "unstarted") <=> (whois_task.state = "unstarted")
    /\ passive_pc \in {"idle", "gather", "dns", "returned"}
    /\ subdomain_task.state \in {"unstarted", "running", "done"}
    /\ whois_task.state \in {"unstarted", "running", "done"}
    /\ (subdomain_task.state = "done" /\ ~subdomain_task.tool_ok) =>
            subdomain_task.value = <<>>
    /\ (whois_task.state = "done" /\ ~whois_task.tool_ok) =>
            whois_task.value = NoWhois
    /\ (whois_task.state = "done" /\ whois_task.tool_ok) =>
            whois_task.value = WhoisRecord
    /\ passive_pc \in {"dns", "returned"} =>
        /\ passive_results.subdomains = subdomain_task.value
        /\ passive_results.whois_data = whois_task.value

\* The stage returned the subdomains found although the WHOIS lookup failed.
C32_Witness ==
    /\ passive_pc = "returned"
    /\ ~whois_task.tool_ok
    /\ subdomain_task.tool_ok
    /\ passive_results.subdomains # <<>>
    /\ passive_results.whois_data = NoWhois

\* C33: the crawl is pre-order depth-first per seed, seeds in input order:
\* every step marks at most one page visited; a page reached through a link
\* is a pending link of the innermost active call, whose own page is already
\* marked visited; a start URL is taken up only when every call made for the
\* one before it has returned, in the order of the list; every page is
\* visited under the seed being crawled; and after the first start URL no
\* further one is taken up once the discovered count has reached max_urls.
C33_PreOrderDepthFirstPerSeed ==
    [][LET new == visited_urls' \ visited_urls
       IN /\ Cardinality(new) <= 1
          /\ \A u \in new :
                IF stack = <<>>
                THEN u = start_urls[seed_idx] /\ seed_idx' = seed_idx + 1
                ELSE /\ u \in Last(stack).pending
                     /\ Last(stack).url \in visited_urls
                     /\ seed_idx' = seed_idx
                     /\ Len(stack') >= Len(stack)
          /\ \A r \in rendered' \ rendered :
                /\ r.url \in new
                /\ r.seed = start_urls[seed_idx' - 1]
                /\ r.depth = Len(stack)
          /\ (cpc = "seeds" /\ seed_idx' # seed_idx) =>
                stack = <<>> /\ seed_idx' = seed_idx + 1
          /\ (cpc = "seeds" /\ seed_idx' # seed_idx /\ seed_idx >= 2) =>
                ~LimitReached]_vars

\* The second start URL is being crawled after a page was reached through a
\* link of the first.
C33_Witness ==
    /\ crawls = 1
    /\ Len(start_urls) = 2
    /\ start_urls[1] # start_urls[2]
    /\ seed_idx = 3
    /\ \E r \in rendered : r.seed = start_urls[1] /\ r.depth = 1
    /\ \E r \in rendered : r.seed = start_urls[2] /\ r.depth = 0

\* C34: every page the crawler opens is closed again, also when its
\* navigation fails: once crawl() has returned, no page opened by
\* _crawl_url is open.
C34_NoPageOpenAfterCrawl ==
    cpc \in {"done", "idle"} => open_pages = {}

\* crawl() has returned after the navigation of a page raised.
C34_Witness ==
    /\ cpc = "done"
    /\ crawls = 1
    /\ failed_pages # {}
    /\ \E r \in rendered : r.url \notin failed_pages

\* The segments of the endpoints before the position the loops are at, in
\* the order the loops meet them, each with its position in the path.
RECURSIVE SegmentsMet(_, _, _)
SegmentsMet(eps, e, g) ==
    IF e > Len(eps) \/ <<e, g>> = auth_pos THEN <<>>
    ELSE IF g > Len(eps[e]) THEN SegmentsMet(eps, e + 1, 1)
    ELSE <<[position |-> g - 1, value |-> eps[e][g]]>>
            \o SegmentsMet(eps, e, g + 1)

\* The distinct members of a sequence in the order of their first
\* occurrence.
RECURSIVE FirstSeenOrder(_)
FirstSeenOrder(seq) ==
    IF seq = <<>> THEN <<>>
    ELSE LET front == FirstSeenOrder(SubSeq(seq, 1, Len(seq) - 1))
         IN IF Last(seq) \in Range(front) THEN front
            ELSE Append(front, Last(seq))

\* C35: path parameters are merged by (segment position, pattern name) and
\* the extraction is deterministic: the output has one entry per pair, the
\* example values of an entry are the values met at that position under
\* that pattern, each once and in first-seen order, and a second call on
\* the same endpoint list returns the same list as the first.
C35_PathParametersMergedDeterministically ==
    LET out == PathParameterList
        met == SegmentsMet(auth_endpoints, 1, 1)
        Under(i) ==
            SelectSeq(met, LAMBDA m :
                /\ m.position = out[i].position
                /\ FirstMatch(PATH_PARAM_PATTERNS, m.value) = out[i].name)
    IN /\ \A i \in 1..Len(out), j \in 1..Len(out) :
            (out[i].position = out[j].position /\ out[i].name = out[j].name)
                => i = j
       /\ \A i \in 1..Len(out) :
            out[i].example_values =
                FirstSeenOrder([n \in 1..Len(Under(i)) |-> Under(i)[n].value])
       /\ \A n \in 1..Len(met) :
            \E i \in 1..Len(out) :
                /\ out[i].position = met[n].position
                /\ out[i].name = FirstMatch(PATH_PARAM_PATTERNS, met[n].value)
       /\ (auth_calls = 2 /\ auth_pos[1] > Len(auth_endpoints)) =>
            out = first_output

\* The second call has returned; the two endpoints have the same first
\* segment, which gave one entry with one example value, and the first
\* endpoint has a second segment, which gave another entry.
C35_Witness ==
    /\ auth_calls = 2
    /\ auth_pos[1] > Len(auth_endpoints)
    /\ Len(auth_endpoints) = 2
    /\ Len(auth_endpoints[1]) = 2
    /\ Len(auth_endpoints[2]) = 1
    /\ auth_endpoints[1][1] = auth_endpoints[2][1]
    /\ Len(first_output) = 2
    /\ first_output[1].position = 0
    /\ first_output[1].example_values = <<auth_endpoints[1][1]>>
    /\ first_output[2].position = 1

\* C36: the port policy: in the deep preset more than 50 hosts select the
\* top 10000 ports and 50 hosts or fewer the full range, both at rate 3000;
\* the shallow preset selects the top 100 ports at rate 1000, the normal
\* preset and any unknown depth the top 1000 at rate 1500; exactly one of
\* the port range and the top-N value is set.
C36_AdaptivePortPolicy ==
    port_config.rate # 0 =>
        /\ (port_config.ports = NoPorts) # (port_config.top_ports = NoTopPorts)
        /\ (port_depth = "deep" /\ host_count > 50) =>
                /\ port_config.top_ports = 10000
                /\ port_config.rate = 3000
        /\ (port_depth = "deep" /\ host_count <= 50) =>
                /\ port_config.ports = FullRange
                /\ port_config.rate = 3000
        /\ port_depth = "shallow" =>
                port_config.top_ports = 100 /\ port_config.rate = 1000
        /\ port_depth \notin {"shallow", "deep"} =>
                port_config.top_ports = 1000 /\ port_config.rate = 1500

\* The deep preset called with exactly 50 hosts took the full range.
C36_Witness ==
    /\ port_depth = "deep"
    /\ host_count = 50
    /\ port_config.ports = FullRange
    /\ port_config.rate = 3000

\* C37 as stated: when the Deep stage runs in hybrid mode and the browser
\* crawler raises no error, every URL of the crawler's discovered set is the
\* URL of an endpoint of the stage's result, and the pages-visited count of
\* the result is the number of pages the crawler visited.
C37_HybridKeepsCrawlerOutput ==
    (stage_results # <<>> /\ crawler_outcome.ok) =>
        (stage_results.crawler_used = "hybrid" =>
            /\ \A u \in crawler_outcome.discovered :
                \E i \in 1..Len(stage_results.endpoints) :
                    stage_results.endpoints[i].url = u
            /\ stage_results.url_discovery.present
            /\ stage_results.url_discovery.pages_visited =
                    crawler_outcome.visited)

\* C38 as stated: when the enrichment computation itself raises no error,
\* the Enrichment stage appends an 'Enrichment completed' event; an
\* 'Enrichment failed' event is appended only when the computation failed,
\* so the error every such event reports is an error of the computation,
\* and a stage that has ended without one has its completed event.
C38_EnrichmentFailsOnlyOnError ==
    /\ \A i \in EventIdx(FailedEvent["enrichment"]) :
            discovery_timeline[i].message \in ErrorMessages
    /\ (Entered("enrichment") /\ pc # "in_enrichment"
            /\ ~HasEvent(FailedEvent["enrichment"])) =>
                HasEvent(CompletedEvent["enrichment"])

\* The hosts of the services the probe returned.
ProbedHosts == {services[k].url.host : k \in 1..Len(services)}

\* C39 as stated: once the Active stage has executed, a subdomain is live
\* exactly when some probed service's host is the subdomain's name and dead
\* otherwise, and the live-subdomain count is the number of live
\* subdomains; while the stage has not executed every status is unknown.
C39_LiveIffHostProbed ==
    domains.present =>
        /\ HasEvent(CompletedEvent["active"]) =>
            /\ \A i \in 1..Len(domains.subdomains) :
                domains.subdomains[i].status =
                    IF domains.subdomains[i].name \in ProbedHosts
                    THEN "live" ELSE "dead"
            /\ domains.live_subdomains = CountLive(domains.subdomains)
        /\ ~Entered("active") =>
            \A i \in 1..Len(domains.subdomains) :
                domains.subdomains[i].status = "unknown"

\* C40 as stated: the counters of the Active stage's result are consistent
\* for every output of the probe: live_count is the number of services
\* returned, dead_count is not negative, and live_count plus dead_count is
\* the number of subdomains probed.
C40_ActiveCountersConsistent ==
    probe_results # <<>> =>
        /\ probe_results.total_probed = Len(active_subdomains)
        /\ probe_results.live_count = Len(probe_results.services)
        /\ probe_results.dead_count >= 0
        /\ probe_results.live_count + probe_results.dead_count =
                probe_results.total_probed

====
